---- MODULE Spec2Model ----
(***************************************************************************)
(* A2A gateway of agents-at-scale-ark:                                     *)
(*   - ARKAgentExecutor (services/ark-api-a2a/src/a2agw/execution.py)      *)
(*   - the query driver  (ark_api/api/v1/a2agw/query.py)                   *)
(*   - ProxyApp / DynamicManager (ark_api/api/v1/a2agw/manager.py)         *)
(*   - the agent-card projector (ark_api/api/v1/a2agw/registry.py)         *)
(*   - the OpenAI path: chat_completions, proxy_streaming_response         *)
(*     (ark_api/api/v1/openai.py), poll_query_completion                   *)
(*     (ark_api/utils/query_polling.py), the single-chunk SSE answer       *)
(*     (ark_api/utils/streaming.py) and the Query routes                   *)
(*     (ark_api/api/v1/queries.py)                                         *)
(*                                                                         *)
(* Scheduling of the executor is asyncio's: a coroutine runs without       *)
(* interruption between two awaits that suspend.  asyncio.Lock.acquire     *)
(* returns without suspending when the lock is free, and no critical       *)
(* section of tasks_lock contains an await, so the lock is free at every   *)
(* suspension point and `async with self.tasks_lock` never suspends.  The  *)
(* suspension points of execute are event_queue.enqueue_event and          *)
(* asyncio.wait_for; those of the query computation are a_create, a_get    *)
(* and asyncio.sleep.                                                      *)
(***************************************************************************)
EXTENDS Integers, Sequences, FiniteSets, TLC

(* ------------------------------ bounds -------------------------------- *)
\* number of execute invocations
NumExec == 1
\* the executor's timeout in seconds (ARKAgentExecutor.timeout)
Timeout == 2

\* number of requests in flight at the router
NumReq == 1

\* attempts of poll_query_completion (max_attempts, 60 in the code)
MaxAttempts == 2
\* lines the streaming backend sends on one connection
MaxLines == 2
\* memory services of the namespace, at most
MaxMem == 3
\* calls of post_query that create a Query in one run
MaxCalls == 4

Execs == 1..NumExec
TaskIds == {"t1", "t2"}
\* context.task_id of the requests: the first carries t1, a later one t1 or t2
ContextTaskIds(e) == IF e = 1 THEN {"t1"} ELSE TaskIds

VARIABLES
    epc,                \* position of each execute invocation
    etask,              \* context.task_id of each execute invocation
    active_coroutines,  \* ARKAgentExecutor.active_coroutines
    cpc,                \* position of the query computation (post_query_and_wait)
    cres,               \* what the computation returned or raised (str)
    clk,                \* seconds since the invocation armed asyncio.wait_for and
                        \* wait_for_query took start_time, counted up to Timeout
    queries,            \* the Query record each computation created
    sink,               \* events enqueued on the event queue of each task, in order
    warned              \* task ids of the "task is not active" warnings that
                        \* cancel logged, or NoCapture when no handler keeps them

execVars == <<epc, etask, active_coroutines, cpc, cres, clk, queries, sink, warned>>

VARIABLES
    registry,           \* the Agent records of the cluster, by name
    agents,             \* DynamicManager.agents: name -> AgentCard
    cell,               \* ProxyApp._app: the current Starlette app (0: None)
    apps,               \* the Starlette apps alive in the process and their mounts
    mgr,                \* DynamicManager: created / initializing / running /
                        \* stopping / stopped
    tpc,                \* position of the reconcile tick (_sync_with_registry)
    new_app,            \* the app _update_routes is building (0: none)
    todo,               \* agents _update_routes has still to mount
    req,                \* the requests in flight at ProxyApp.__call__
    installed,          \* history: the table each app stood for when set_app installed it
    fresh,              \* history: the tick in progress fetched after the last registry change
    synced,             \* history: a tick that fetched after the last registry change has completed
    noError             \* history: no reconcile tick has raised so far

routerVars == <<registry, agents, cell, apps, mgr, tpc, new_app, todo, req,
                installed, fresh, synced, noError>>

VARIABLES
    kpc,                \* position of the chat_completions request
    kreq,               \* the ChatCompletionRequest: stream flag and metadata
    kmeta,              \* the `metadata` dict of chat_completions
    kquery,             \* the Query record the request created, as the cluster holds it
    kattempt,           \* `attempt` of poll_query_completion
    kexc,               \* the exception raised inside the try block of chat_completions
    khttp,              \* the HTTP response of the request
    kframes,            \* the frames written on the response stream, in order
    klines,             \* lines of the streaming backend not yet read
    klog,               \* history: writes the gateway made to the Query record
    kcfg,               \* streaming_config of chat_completions
    kback               \* `response` of proxy_streaming_response: what the backend answered

chatVars == <<kpc, kreq, kmeta, kquery, kattempt, kexc, khttp, kframes, klines, klog,
              kcfg, kback>>

VARIABLES
    spc,                \* position of the delete_session request
    memory_dicts,       \* the Memory resources that get_all_memory_resources listed
    scalls,             \* what each contacted memory service did, in order
    deleted_count,      \* delete_session.deleted_count
    failed_services,    \* delete_session.failed_services
    shttp               \* the HTTP answer of delete_session

sessVars == <<spc, memory_dicts, scalls, deleted_count, failed_services, shttp>>

VARIABLES
    apc,                \* position of the request in AuthMiddleware.dispatch
    areq,               \* AUTH_MODE at the request, whether the route is
                        \* authenticated, and the Authorization header
    ahttp,              \* the response that leaves the middleware
    ahandled            \* call_next was awaited for the request

authVars == <<apc, areq, ahttp, ahandled>>

VARIABLES
    cluster_names,      \* names of the Queries that exist in the namespace
    created             \* names that post_query returned, in order of creation

nameVars == <<cluster_names, created>>

VARIABLES
    surface             \* main.py lifespan has mounted the proxy at /a2a/agent

lifeVars == <<surface>>

VARIABLES
    mpc,                \* position of the call of process_request_metadata
    request_metadata,   \* its argument request_metadata
    base_metadata,      \* its argument base_metadata, a dict it changes in place
    base_before,        \* history: base_metadata when the call was made
    error_response      \* what the call returned: TRUE for the JSONResponse

metaVars == <<mpc, request_metadata, base_metadata, base_before, error_response>>

VARIABLES
    tasks_lock,         \* ARKAgentExecutor.tasks_lock: its holder, or "free"
    lpc,                \* position of each invocation, lock steps apart
    lmap,               \* active_coroutines[task_id]: the invocation whose
                        \* computation it holds, or "none"
    found               \* cancel: its local `coroutine` held an entry

lockVars == <<tasks_lock, lpc, lmap, found>>

VARIABLES
    cancel_outcome      \* what a cancel request for the task of an in-flight
                        \* request met at the sub-handler it was routed to

swapVars == <<cancel_outcome>>

VARIABLES
    secret,             \* the stored Secret of one API key: data["is_active"]
                        \* and the deletedAt / lastUsedAt of its annotation
    dpc,                \* position of the delete_api_key call
    dsecret,            \* delete_api_key: its local `secret`
    dresult,            \* what delete_api_key returned
    vpc,                \* position of each verify_api_key call
    vsecret,            \* _update_last_used: its local `secret`
    vresult,            \* what each verify_api_key call returned last
    vlater              \* the call began after delete_api_key returned True

keyVars == <<secret, dpc, dsecret, dresult, vpc, vsecret, vresult, vlater>>

restVars == <<metaVars, lockVars, swapVars, keyVars>>

\* the state of the other endpoints of ark-api
apiVars == <<sessVars, authVars, nameVars, lifeVars, restVars>>

vars == <<execVars, routerVars, chatVars, apiVars>>

(* --------------------------- cluster records -------------------------- *)
NoQuery == [phase |-> "absent", responses |-> <<>>]
\* a Query right after a_create: no status yet
NewQuery == [phase |-> "", responses |-> <<>>]
\* status.responses the controller may write
ResponseChoices == {<<>>, <<[content |-> "hello"]>>}
\* the same with a first response that carries no content
DriverResponseChoices == ResponseChoices \cup {<<[content |-> ""]>>}

(* ------------------------------- events ------------------------------- *)
\* _create_status_event: status.message only for a failed state with error_msg
CreateStatusEvent(by, tid, state, final, error_msg) ==
    [by |-> by, task |-> tid, kind |-> "status", state |-> state, final |-> final,
     text |-> IF error_msg # "" /\ state = "failed"
              THEN "Task failed: " \o error_msg ELSE ""]

\* new_agent_text_message
NewAgentTextMessage(by, tid, text) ==
    [by |-> by, task |-> tid, kind |-> "message", state |-> "", final |-> FALSE,
     text |-> text]

\* EventQueue.enqueue_event on the queue of the event's task
Enqueue(ev) == sink' = [sink EXCEPT ![ev.task] = Append(@, ev)]

(* ------------------------- the registered object ---------------------- *)
\* the logger of the executor module without a handler that keeps records
NoCapture == {"NoCapture"}
\* logger.warning(f"Cancellation requested for task {task_id}, but task is not active")
LogWarning(log, tid) == IF log = NoCapture THEN log ELSE log \cup {tid}

NoEntry == [kind |-> "none", inv |-> 0]
\* result_co = self._process_query(user_message): calling an async def gives a
\* coroutine object, which is what execute stores in the map
ProcessQuery(e) == [kind |-> "coroutine", inv |-> e]
\* isinstance(coroutine, asyncio.Task)
IsTask(co) == co.kind = "Task"

\* pop that leaves the entry in place
PopKeepsEntry(m, tid) == m

\* self.active_coroutines.pop(task_id, None)
Pop(m, tid) == [m EXCEPT ![tid] = NoEntry]

(* ----------------------------- query driver --------------------------- *)
\* DoneContent without the `or "No response content"` of line 82
DoneContentAsIs(q) ==
    IF q.responses # <<>> THEN q.responses[1].content
    ELSE "Query completed but no response available"

\* wait_for_query, phase == "done"
DoneContent(q) ==
    IF q.responses # <<>>
    THEN IF q.responses[1].content # "" THEN q.responses[1].content
         ELSE "No response content"
    ELSE "Query completed but no response available"

\* wait_for_query, phase == "error"
ErrorMessage(q) ==
    "Query error: " \o
        (IF q.responses # <<>> /\ q.responses[1].content # ""
         THEN q.responses[1].content ELSE "Query failed")

DriverTimeoutMessage == "Query timeout after " \o ToString(Timeout) \o " seconds"
ExecTimeoutText == "Query timed out after " \o ToString(Timeout) \o " seconds"
ExecTimeoutError == "Query timeout after " \o ToString(Timeout) \o "s"

\* one more second on a clock that is only compared with Timeout
Tick(c) == IF c < Timeout THEN c + 1 ELSE Timeout

(* ------------------------ agent-card projector ------------------------ *)
AgentNames == {"foo", "bar"}
\* Agent records the cluster may hold under a name: description None and no
\* annotations; a description, the skill annotation and a skills list with an
\* entry that is no dict; no description and only an entry that is no dict
Variants == {"plain", "skilled", "malformed"}
\* the records the cluster holds under each name: foo is created, edited and
\* deleted, bar only created and deleted
VariantsOf(n) == IF n = "foo" THEN Variants ELSE {"plain"}
NotDict == [isdict |-> FALSE, id |-> "", name |-> ""]
ArkAgent(n, v) ==
    CASE v = "plain" ->
            [name |-> n, description |-> "", skill |-> <<>>, skills |-> <<>>]
      [] v = "skilled" ->
            [name |-> n, description |-> "d", skill |-> <<"s">>,
             skills |-> << NotDict,
                           [isdict |-> TRUE, id |-> "", name |-> "s"],
                           [isdict |-> TRUE, id |-> "k", name |-> "t"] >>]
      [] v = "malformed" ->
            [name |-> n, description |-> "", skill |-> <<>>, skills |-> << NotDict >>]

NoCard == [name |-> "", description |-> "", skills |-> <<>>, url |-> ""]

\* get_external with the default url components
GetExternal(n) == "http://localhost:8000/a2a/agent/" \o n \o "/"

\* the loop of ark_to_agent_card over enumerate(skills_data), entries k..Len
RECURSIVE SkillsFrom(_, _, _)
SkillsFrom(n, data, k) ==
    IF k > Len(data) THEN <<>>
    ELSE (IF data[k].isdict
          THEN << [id |-> IF data[k].id # "" THEN data[k].id
                          ELSE n \o "-skill-" \o ToString(k - 1),
                   name |-> data[k].name] >>
          ELSE <<>>) \o SkillsFrom(n, data, k + 1)

ArkToAgentCard(a) ==
    [name |-> a.name,
     description |-> IF a.description # "" THEN a.description ELSE "No description",
     skills |-> SkillsFrom(a.name, a.skills, 1) \o
                (IF a.skill = <<>>
                 THEN << [id |-> a.name \o "-default-skill", name |-> "General"] >>
                 ELSE <<>>),
     url |-> GetExternal(a.name)]

\* AgentRegistry.list_agents, as the dict {card.name: card}
ListAgents ==
    [n \in AgentNames |-> IF registry[n] = "absent" THEN NoCard
                          ELSE ArkToAgentCard(ArkAgent(n, registry[n]))]

(* ------------------------------ the router ---------------------------- *)
Reqs == 1..NumReq
\* a Starlette app is alive while the cell, a request or _update_routes holds it
AppIds == 1..(NumReq + 2)
NoTable == [n \in AgentNames |-> NoCard]
NoApp == [live |-> FALSE, mounts |-> NoTable]
NotInstalled == [set |-> FALSE, table |-> NoTable]
NoHandler == [app |-> 0, name |-> "", card |-> NoCard]
\* the 404 Not Found answer
NotFound == [app |-> 0, name |-> "404", card |-> NoCard]
IdleReq == [pc |-> "idle", name |-> "", app |-> 0, seen |-> NoTable, handler |-> NoHandler]
\* a request that has got its answer holds no app any more
Answered(n, h) == [pc |-> "done", name |-> n, app |-> 0, seen |-> NoTable, handler |-> h]

InitRouter ==
    /\ registry = [n \in AgentNames |-> "absent"]
    /\ agents = NoTable
    /\ cell = 0
    /\ apps = [a \in AppIds |-> NoApp]
    /\ mgr = "created"
    /\ tpc = "idle"
    /\ new_app = 0
    /\ todo = {}
    /\ req = [r \in Reqs |-> IdleReq]
    /\ installed = [a \in AppIds |-> NotInstalled]
    /\ fresh = FALSE
    /\ synced = FALSE
    /\ noError = TRUE

(* ---------------------------- the OpenAI path ------------------------- *)
\* request.metadata: None; keys other than "ark"; "ark" holding annotations;
\* "ark" holding {"annotations": null}; "ark" holding text that is no JSON
MdKinds == {"none", "other", "ark", "arkNoAnnotations", "arkInvalid"}
UserAnnotation == "ark.mckinsey.com/a2a-context-id"
StreamingEnabledAnnotation == "STREAMING_ENABLED_ANNOTATION"
\* metadata = {"name": query_name, "namespace": namespace}
BaseMetadata == [name |-> "openai-query", hasAnnotations |-> FALSE, annotations |-> {}]

\* ProcessRequestMetadata that creates the annotations dict before it validates
ProcessRequestMetadataAnnotatesFirst(md, base) ==
    CASE md \in {"none", "other"} ->
            [error |-> FALSE, metadata |-> base]
      [] md = "arkNoAnnotations" ->
            [error |-> FALSE, metadata |-> [base EXCEPT !.hasAnnotations = TRUE]]
      [] md = "ark" ->
            [error |-> FALSE,
             metadata |-> [base EXCEPT !.hasAnnotations = TRUE,
                                       !.annotations = @ \cup {UserAnnotation}]]
      [] md = "arkInvalid" ->
            [error |-> TRUE, metadata |-> [base EXCEPT !.hasAnnotations = TRUE]]

\* process_request_metadata: the JSONResponse it returns (or None) and the
\* base_metadata it leaves
ProcessRequestMetadata(md, base) ==
    CASE md \in {"none", "other", "arkNoAnnotations"} ->
            [error |-> FALSE, metadata |-> base]
      [] md = "ark" ->
            [error |-> FALSE,
             metadata |-> [base EXCEPT !.hasAnnotations = TRUE,
                                       !.annotations = @ \cup {UserAnnotation}]]
      [] md = "arkInvalid" ->
            [error |-> TRUE, metadata |-> base]

\* HTTP responses
NoHttp == [status |-> 0, kind |-> "none", type |-> "", code |-> "", content |-> ""]
JsonError(status, type, code) ==
    [status |-> status, kind |-> "error", type |-> type, code |-> code, content |-> ""]
\* the ChatCompletion returned by poll_query_completion, answered with 200
Completion(content) ==
    [status |-> 200, kind |-> "completion", type |-> "", code |-> "", content |-> content]
\* StreamingResponse(..., media_type="text/event-stream")
EventStream ==
    [status |-> 200, kind |-> "event-stream", type |-> "", code |-> "", content |-> ""]

\* exceptions raised inside the try block
NoDetail == [message |-> "", errors |-> <<>>]
NoExc == [class |-> "", status |-> 0, detail |-> NoDetail]
HTTPException(status, detail) == [class |-> "HTTPException", status |-> status, detail |-> detail]
ClientError == [class |-> "Exception", status |-> 0, detail |-> NoDetail]

\* Query records of the chat path
NoChatQuery ==
    [exists |-> FALSE, targets |-> 0, input |-> "", cancel |-> FALSE,
     annotations |-> {}, phase |-> "absent", message |-> "", responses |-> <<>>]
\* status.responses and status.message the controller may write
ChatResponse == {[content |-> c, target |-> t] : c \in {"", "e1", "e2"}, t \in {"", "agent-a"}}
ChatResponseChoices ==
    {<<>>} \cup {<<r>> : r \in ChatResponse}
           \cup {<<[content |-> c1, target |-> "agent-a"], [content |-> c2, target |-> ""]>> :
                    c1 \in {"", "e1"}, c2 \in {"", "e2"}}
MessageChoices == {"", "boom"}

\* _get_error_detail, lines 74-84: target_errors from responses k..Len
RECURSIVE TargetErrors(_, _)
TargetErrors(responses, k) ==
    IF k > Len(responses) THEN <<>>
    ELSE (IF responses[k].content # ""
          THEN << [target |-> IF responses[k].target # "" THEN responses[k].target
                              ELSE "target-" \o ToString(k - 1),
                   message |-> responses[k].content] >>
          ELSE <<>>) \o TargetErrors(responses, k + 1)

\* GetErrorDetail that lists a single target error too (`> 0` at line 97)
GetErrorDetailListsSingle(status) ==
    LET target_errors == TargetErrors(status.responses, 1) IN
    [message |-> IF target_errors # <<>> THEN target_errors[1].message
                 ELSE IF status.message # "" THEN status.message
                 ELSE "Query execution failed: No error details available",
     errors |-> target_errors]

\* _get_error_detail, lines 68-98
GetErrorDetail(status) ==
    LET target_errors == TargetErrors(status.responses, 1) IN
    [message |-> IF target_errors # <<>> THEN target_errors[1].message
                 ELSE IF status.message # "" THEN status.message
                 ELSE "Query execution failed: No error details available",
     errors |-> IF Len(target_errors) > 1 THEN target_errors ELSE <<>>]

\* text is a sequence of characters; a literal of several characters that is
\* never split stands as one element
NL == "\n"
DataPrefix == <<"d", "a", "t", "a", ":", " ">>
Done == <<"[DONE]">>
\* json.dumps / model_dump_json of an object: one line, never empty
Json == <<"{", "}">>
NoPayload == [kind |-> "", status |-> 0, message |-> "", type |-> "", code |-> "",
              content |-> "", finish_reason |-> ""]
Frame(text, payload) == [text |-> text, payload |-> payload]

\* CreateSingleChunkSseResponse without the terminator of line 62
CreateSingleChunkNoTerminator(completion) ==
    << Frame(DataPrefix \o Json \o <<NL, NL>>,
             [NoPayload EXCEPT !.kind = "chat.completion.chunk",
                               !.content = completion.content,
                               !.finish_reason = "stop"]) >>

\* create_single_chunk_sse_response
CreateSingleChunkSseResponse(completion) ==
    << Frame(DataPrefix \o Json \o <<NL, NL>>,
             [NoPayload EXCEPT !.kind = "chat.completion.chunk",
                               !.content = completion.content,
                               !.finish_reason = "stop"]),
       Frame(DataPrefix \o Done \o <<NL, NL>>, NoPayload) >>

\* the streaming backend: status, error body, lines
BackendStatuses == {200, 204, 404, 500}
BodyChoices == {"error", "errorNoCode", "errorNoType", "garbage"}
LineChoices ==
    { DataPrefix \o Json,
      DataPrefix \o Done,
      <<>>,
      <<" ">>,
      <<"e", "v", "e", "n", "t", ":", " ", "x">>,
      <<"d", "a", "t", "a", ":">> }
RECURSIVE LineSeqs(_)
LineSeqs(n) ==
    IF n = 0 THEN {<<>>}
    ELSE LineSeqs(n - 1) \cup
         {Append(ls, l) : ls \in {x \in LineSeqs(n - 1) : Len(x) = n - 1}, l \in LineChoices}

\* str.strip() on a line
RECURSIVE LStrip(_)
LStrip(l) == IF l # <<>> /\ Head(l) = " " THEN LStrip(Tail(l)) ELSE l
RECURSIVE RStrip(_)
RStrip(l) == IF l # <<>> /\ l[Len(l)] = " " THEN RStrip(SubSeq(l, 1, Len(l) - 1)) ELSE l
Strip(l) == RStrip(LStrip(l))

\* proxy_streaming_response, lines 108-145: error_data for a status other than 200
ReasonPhrase(status) ==
    CASE status = 204 -> "No Content" [] status = 404 -> "Not Found"
      [] status = 500 -> "Internal Server Error" [] OTHER -> "OK"
ErrorData(status, body) ==
    CASE body = "error" ->
            [NoPayload EXCEPT !.kind = "error", !.status = status, !.message = "m",
                              !.type = "t", !.code = "c"]
      [] body = "errorNoCode" ->
            [NoPayload EXCEPT !.kind = "error", !.status = status, !.message = "m",
                              !.type = "t", !.code = "server_error"]
      [] OTHER ->
            [NoPayload EXCEPT !.kind = "error", !.status = status,
                              !.message = ToString(status) \o " " \o ReasonPhrase(status),
                              !.type = "server_error", !.code = "server_error"]

NoChatReq == [stream |-> FALSE, md |-> "none"]
NoBackend == [status |-> 0, body |-> "", lines |-> <<>>]

InitChat ==
    /\ kpc = "idle"
    /\ kreq = NoChatReq
    /\ kmeta = BaseMetadata
    /\ kquery = NoChatQuery
    /\ kattempt = 0
    /\ kexc = NoExc
    /\ khttp = NoHttp
    /\ kframes = <<>>
    /\ klines = <<>>
    /\ klog = <<>>
    /\ kcfg = "unread"
    /\ kback = NoBackend

(* ------------------------- sessions: delete_session ------------------- *)
\* the Memory resources of the namespace, by position in the list
MemoryNames(n) == [i \in 1..n |-> i]

\* a memory service answered the DELETE with a status code
Response(status) == [kind |-> "response", status |-> status]
\* the DELETE raised: the address did not resolve or the connection failed
ConnectError == [kind |-> "exception", status |-> 0]
\* the status codes a memory service answers with
MemoryStatuses == {200, 204, 404, 500, 503}
MemoryOutcomes == {Response(st) : st \in MemoryStatuses} \cup {ConnectError}

\* httpx.Response.is_success
IsSuccess(status) == 200 <= status /\ status < 300

\* the statuses of an ApiException raised by the list of Memory resources
ListErrorStatuses == {403, 500}

NoAnswer == [status |-> 0, count |-> 0, detail |-> ""]
\* the return value of line 127, answered with 200
DeletedAnswer(n) == [status |-> 200, count |-> n, detail |-> "deleted successfully"]
\* raise HTTPException(status_code, detail)
SessHTTPException(status, detail) == [status |-> status, count |-> 0, detail |-> detail]

InitSess ==
    /\ spc = "idle"
    /\ memory_dicts = <<>>
    /\ scalls = <<>>
    /\ deleted_count = 0
    /\ failed_services = <<>>
    /\ shttp = NoAnswer

(* ------------------------------ AuthMiddleware ------------------------ *)
\* values of the AUTH_MODE environment variable at a request; "" is unset
EnvAuthModes == {"sso", "basic", "hybrid", "open", "", "SSO", "Hybrid"}
\* str.lower on the values of EnvAuthModes
Lower(str) ==
    IF str = "SSO" THEN "sso" ELSE IF str = "Hybrid" THEN "hybrid" ELSE str
\* line 95: os.getenv("AUTH_MODE", "").lower() or AuthMode.OPEN
DispatchAuthMode(env) == IF Lower(env) = "" THEN "open" ELSE Lower(env)

\* no Authorization header
NoHeader == [scheme |-> "", credential |-> ""]
\* Authorization headers by the prefix they start with and by what the
\* validation of the credential does: "valid" (validate_token returns,
\* verify_api_key returns the key), "invalid" (TokenValidationError, no key),
\* "empty" (no token after the prefix, credentials that do not parse),
\* "raises" (another exception)
AuthHeaders ==
    {NoHeader} \cup [scheme : {"Bearer", "Basic", "Digest"},
                     credential : {"valid", "invalid", "empty", "raises"}]

NoAuthReq == [mode |-> "", protected |-> FALSE, header |-> NoHeader]
NoAuthAnswer == [status |-> 0]
\* JSONResponse(status_code=401, ...)
Unauthorized == [status |-> 401]
\* whatever the route handler answers
HandlerResponse == [status |-> 200]

InitAuth ==
    /\ apc = "idle"
    /\ areq = NoAuthReq
    /\ ahttp = NoAuthAnswer
    /\ ahandled = FALSE

(* ------------------------------- post_query --------------------------- *)
\* values of uuid.uuid4().hex[:8]: eight hexadecimal digits
HexChoices == {"00000000", "9f3c27ab", "ffffffff"}
\* f"a2agw-query-{uuid.uuid4().hex[:8]}"
QueryName(hex) == [prefix |-> "a2agw-query-", hex |-> hex]

InitNames ==
    /\ cluster_names = {}
    /\ created = <<>>

\* main.py, before lifespan has run
InitLife == surface = FALSE

(* ---------------- process_request_metadata, on annotation values ------- *)
\* annotation keys and values; Absent stands for a key the dict does not hold
AnnKeys == {"existing", "ark.mckinsey.com/new"}
AnnValues == {"value", "annotation"}
Absent == "<absent>"
AnnMaps == [AnnKeys -> AnnValues \cup {Absent}]
EmptyAnn == [k \in AnnKeys |-> Absent]

\* base_metadata: {"name": ..., "namespace": ...} with or without an
\* "annotations" dict
BaseMetadatas ==
    {[hasAnnotations |-> FALSE, annotations |-> EmptyAnn]} \cup
    {[hasAnnotations |-> TRUE, annotations |-> m] : m \in AnnMaps}

\* request_metadata: None; {}; keys other than "ark"; "ark" holding text that
\* is no JSON of the expected shape; "ark" holding {}; "ark" holding
\* {"annotations": null}; "ark" holding {"annotations": {...}}
RequestMetadatas ==
    {[kind |-> k, annotations |-> EmptyAnn] :
        k \in {"none", "empty", "other", "arkInvalid", "arkNoField", "arkNull"}} \cup
    {[kind |-> "ark", annotations |-> m] : m \in AnnMaps}

\* dict.update
Update(d, u) == [k \in AnnKeys |-> IF u[k] # Absent THEN u[k] ELSE d[k]]

\* MergeArkAnnotations that assigns the supplied dict instead of updating
MergeArkAnnotationsReplaces(rmd, base) ==
    CASE rmd.kind \in {"none", "empty", "other"} -> [error |-> FALSE, metadata |-> base]
      [] rmd.kind = "arkInvalid" -> [error |-> TRUE, metadata |-> base]
      [] rmd.kind \in {"arkNoField", "arkNull"} -> [error |-> FALSE, metadata |-> base]
      [] OTHER ->
            IF rmd.annotations = EmptyAnn
            THEN [error |-> FALSE, metadata |-> base]
            ELSE [error |-> FALSE,
                  metadata |-> [hasAnnotations |-> TRUE,
                                annotations |-> rmd.annotations]]

\* process_request_metadata with the annotations as a dict of values: line 70
\* returns for None and {}; line 74 skips a dict without "ark"; a
\* ValidationError returns the JSONResponse before base_metadata is touched;
\* `if ark_metadata.annotations` skips None and {}; otherwise the annotations
\* dict is created when missing and updated
MergeArkAnnotations(rmd, base) ==
    CASE rmd.kind \in {"none", "empty", "other"} -> [error |-> FALSE, metadata |-> base]
      [] rmd.kind = "arkInvalid" -> [error |-> TRUE, metadata |-> base]
      [] rmd.kind \in {"arkNoField", "arkNull"} -> [error |-> FALSE, metadata |-> base]
      [] OTHER ->
            IF rmd.annotations = EmptyAnn
            THEN [error |-> FALSE, metadata |-> base]
            ELSE [error |-> FALSE,
                  metadata |-> [hasAnnotations |-> TRUE,
                                annotations |-> Update(base.annotations, rmd.annotations)]]

InitMeta ==
    /\ mpc = "idle"
    /\ request_metadata = [kind |-> "none", annotations |-> EmptyAnn]
    /\ base_metadata = [hasAnnotations |-> FALSE, annotations |-> EmptyAnn]
    /\ base_before = base_metadata
    /\ error_response = FALSE

(* ------------------- the executor, lock step by lock step ------------- *)
\* two execute invocations and one cancel invocation on one task identifier
LockExecutes == {"x1", "x2"}
LockCancels == {"c"}
LockProcs == LockExecutes \cup LockCancels

\* positions at which an invocation is suspended in an await of the query
\* computation (wait_for) or of a write to the event queue
SinkWaits == {"send_working", "send_result", "send_error", "send_cancel"}
AwaitPositions == SinkWaits \cup {"wait_for"}
\* positions inside an `async with self.tasks_lock` block
LockedPositions == {"store", "get", "pop", "release1", "release2"}

InitLock ==
    /\ tasks_lock = "free"
    /\ lpc = [p \in LockProcs |-> "idle"]
    /\ lmap = "none"
    /\ found = FALSE

\* no cancel request has been made
InitSwap == cancel_outcome = "none"

(* ---------------------------- APIKeyService ---------------------------- *)
\* the calls of verify_api_key that may overlap, each made again and again
Verifiers == {"v1", "v2"}
\* the secret key a caller presents
SecretKeys == {"good", "bad"}
\* a timestamp of the annotation is absent or was written
NoTime == "<no time>"
NoSecret == [is_active |-> TRUE, deleted_at |-> NoTime, last_used_at |-> NoTime]

\* create_api_key: is_active "true", an annotation without lastUsedAt and
\* deletedAt; no call is in progress
InitKeys ==
    /\ secret = NoSecret
    /\ dpc = "idle"
    /\ dsecret = NoSecret
    /\ dresult = "none"
    /\ vpc = [v \in Verifiers |-> "idle"]
    /\ vsecret = [v \in Verifiers |-> NoSecret]
    /\ vresult = [v \in Verifiers |-> "none"]
    /\ vlater = [v \in Verifiers |-> FALSE]

InitApi == InitSess /\ InitAuth /\ InitNames /\ InitLife /\ InitMeta /\ InitLock /\ InitSwap
           /\ InitKeys

(* ------------------------------- Init --------------------------------- *)
Init ==
    /\ epc = [e \in Execs |-> "idle"]
    /\ etask = [e \in Execs |-> "t1"]
    /\ active_coroutines = [t \in TaskIds |-> NoEntry]
    /\ cpc = [e \in Execs |-> "unstarted"]
    /\ cres = [e \in Execs |-> ""]
    /\ clk = [e \in Execs |-> 0]
    /\ queries = [e \in Execs |-> NoQuery]
    /\ sink = [t \in TaskIds |-> <<>>]
    /\ warned = NoCapture
    /\ InitRouter
    /\ InitChat
    /\ InitApi

(* ------------------- execute: continuations of wait_for --------------- *)
\* OnResult without the text message of line 141
OnResultNoMessage(e, text) ==
    /\ cpc' = [cpc EXCEPT ![e] = "returned"]
    /\ cres' = [cres EXCEPT ![e] = text]
    /\ epc' = [epc EXCEPT ![e] = "s_final"]
    /\ UNCHANGED <<active_coroutines, sink>>

\* wait_for returned `text`: lines 140-141, up to the suspension in enqueue_event
OnResult(e, text) ==
    /\ cpc' = [cpc EXCEPT ![e] = "returned"]
    /\ cres' = [cres EXCEPT ![e] = text]
    /\ Enqueue(NewAgentTextMessage(e, etask[e], text))
    /\ epc' = [epc EXCEPT ![e] = "s_final"]
    /\ UNCHANGED active_coroutines

\* OnException without the `except Exception` of line 175: the error leaves execute
OnExceptionPropagates(e, text) ==
    /\ cpc' = [cpc EXCEPT ![e] = "raised"]
    /\ cres' = [cres EXCEPT ![e] = text]
    /\ active_coroutines' = Pop(active_coroutines, etask[e])
    /\ epc' = [epc EXCEPT ![e] = "propagated"]
    /\ UNCHANGED sink

\* wait_for raised an Exception other than TimeoutError: the finally block
\* (lines 170-173) pops the entry, then _handle_error enqueues the text (191-194)
OnException(e, text) ==
    /\ cpc' = [cpc EXCEPT ![e] = "raised"]
    /\ cres' = [cres EXCEPT ![e] = text]
    /\ active_coroutines' = Pop(active_coroutines, etask[e])
    /\ Enqueue(NewAgentTextMessage(e, etask[e], "Error: " \o text))
    /\ epc' = [epc EXCEPT ![e] = "e_final"]

(* ------------------------------ execute ------------------------------- *)
\* execute returns: the timers of the invocation are gone
Return(e) ==
    /\ clk' = [clk EXCEPT ![e] = 0]
    /\ UNCHANGED cres

\* lines 115-125: extract ids, enqueue the `working` status
ExecuteStart(e, tid) ==
    /\ epc[e] = "idle"
    /\ etask' = [etask EXCEPT ![e] = tid]
    /\ Enqueue(CreateStatusEvent(e, tid, "working", FALSE, ""))
    /\ epc' = [epc EXCEPT ![e] = "working"]
    /\ UNCHANGED <<active_coroutines, cpc, cres, clk, queries>>
    /\ UNCHANGED <<warned, routerVars, chatVars, apiVars>>

\* Register that keeps an entry another invocation stored under the task id
RegisterKeepsExisting(e) ==
    /\ epc[e] = "working"
    /\ active_coroutines' =
            IF active_coroutines[etask[e]] = NoEntry
            THEN [active_coroutines EXCEPT ![etask[e]] = ProcessQuery(e)]
            ELSE active_coroutines
    /\ cpc' = [cpc EXCEPT ![e] = "creating"]
    /\ clk' = [clk EXCEPT ![e] = 0]
    /\ epc' = [epc EXCEPT ![e] = "waiting"]
    /\ UNCHANGED <<etask, cres, queries, sink>>
    /\ UNCHANGED <<warned, routerVars, chatVars, apiVars>>

\* lines 129-137: create the coroutine, store it, start waiting on it
Register(e) ==
    /\ epc[e] = "working"
    /\ active_coroutines' = [active_coroutines EXCEPT ![etask[e]] = ProcessQuery(e)]
    /\ cpc' = [cpc EXCEPT ![e] = "creating"]
    /\ clk' = [clk EXCEPT ![e] = 0]
    /\ epc' = [epc EXCEPT ![e] = "waiting"]
    /\ UNCHANGED <<etask, cres, queries, sink>>
    /\ UNCHANGED <<warned, routerVars, chatVars, apiVars>>

\* post_query: a_create succeeds; wait_for_query takes start_time and does
\* its first a_get
CreateQuery(e) ==
    /\ epc[e] = "waiting" /\ cpc[e] = "creating"
    /\ queries' = [queries EXCEPT ![e] = NewQuery]
    /\ cpc' = [cpc EXCEPT ![e] = "get"]
    /\ UNCHANGED <<epc, etask, active_coroutines, cres, clk, sink>>
    /\ UNCHANGED <<warned, routerVars, chatVars, apiVars>>

\* post_query: a_create raises (registry unreachable, or the name exists)
CreateQueryFails(e) ==
    /\ epc[e] = "waiting" /\ cpc[e] = "creating"
    /\ OnException(e, "registry error")
    /\ UNCHANGED <<etask, clk, queries>>
    /\ UNCHANGED <<warned, routerVars, chatVars, apiVars>>

\* wait_for_query: a_get answers
GetQuery(e) ==
    /\ epc[e] = "waiting" /\ cpc[e] = "get"
    /\ LET q == queries[e] IN
        CASE q.phase = "done"  -> OnResult(e, DoneContent(q))
          [] q.phase = "error" -> OnException(e, ErrorMessage(q))
          [] OTHER -> /\ cpc' = [cpc EXCEPT ![e] = "sleep"]
                      /\ UNCHANGED <<epc, active_coroutines, cres, sink>>
    /\ UNCHANGED <<etask, clk, queries>>
    /\ UNCHANGED <<warned, routerVars, chatVars, apiVars>>

\* wait_for_query: a_get raises; `except Exception: ... raise`
GetQueryFails(e) ==
    /\ epc[e] = "waiting" /\ cpc[e] = "get"
    /\ OnException(e, "registry error")
    /\ UNCHANGED <<etask, clk, queries>>
    /\ UNCHANGED <<warned, routerVars, chatVars, apiVars>>

\* Sleep without the loop condition: a_get is called again whatever the clock
SleepIgnoresDeadline(e) ==
    /\ epc[e] = "waiting" /\ cpc[e] = "sleep"
    /\ clk' = [clk EXCEPT ![e] = Tick(clk[e])]
    /\ cpc' = [cpc EXCEPT ![e] = "get"]
    /\ UNCHANGED <<epc, active_coroutines, cres, sink>>
    /\ UNCHANGED <<etask, queries>>
    /\ UNCHANGED <<warned, routerVars, chatVars, apiVars>>

\* wait_for_query: asyncio.sleep(1) ends, then the loop condition
\* (datetime.now() - start_time).total_seconds() < timeout
Sleep(e) ==
    /\ epc[e] = "waiting" /\ cpc[e] = "sleep"
    /\ clk' = [clk EXCEPT ![e] = Tick(clk[e])]
    /\ IF Tick(clk[e]) < Timeout
       THEN /\ cpc' = [cpc EXCEPT ![e] = "get"]
            /\ UNCHANGED <<epc, active_coroutines, cres, sink>>
       ELSE OnException(e, DriverTimeoutMessage)
    /\ UNCHANGED <<etask, queries>>
    /\ UNCHANGED <<warned, routerVars, chatVars, apiVars>>

\* the a_get in flight takes one more second
IOLatency(e) ==
    /\ epc[e] = "waiting" /\ cpc[e] = "get"
    /\ clk[e] < Timeout
    /\ clk' = [clk EXCEPT ![e] = Tick(clk[e])]
    /\ UNCHANGED <<epc, etask, active_coroutines, cpc, cres, queries, sink>>
    /\ UNCHANGED <<warned, routerVars, chatVars, apiVars>>

\* asyncio.wait_for's timer fires: the computation is cancelled by wait_for,
\* TimeoutError is raised in execute (lines 148-161).  result_co is not a Task,
\* so line 153 is not run.  The timer runs on the loop's monotonic clock and
\* wait_for_query on datetime.now(): when both are due the order is open.
WaitForTimeout(e) ==
    /\ epc[e] = "waiting" /\ cpc[e] \in {"get", "sleep"}
    /\ clk[e] >= Timeout
    /\ cpc' = [cpc EXCEPT ![e] = "cancelled"]
    /\ Enqueue(NewAgentTextMessage(e, etask[e], ExecTimeoutText))
    /\ epc' = [epc EXCEPT ![e] = "t_final"]
    /\ UNCHANGED <<etask, active_coroutines, cres, clk, queries>>
    /\ UNCHANGED <<warned, routerVars, chatVars, apiVars>>

\* line 144
SuccessFinal(e) ==
    /\ epc[e] = "s_final"
    /\ Enqueue(CreateStatusEvent(e, etask[e], "completed", TRUE, ""))
    /\ epc' = [epc EXCEPT ![e] = "cleanup"]
    /\ UNCHANGED <<etask, active_coroutines, cpc, cres, clk, queries>>
    /\ UNCHANGED <<warned, routerVars, chatVars, apiVars>>

\* lines 164-168
TimeoutFinal(e) ==
    /\ epc[e] = "t_final"
    /\ Enqueue(CreateStatusEvent(e, etask[e], "failed", TRUE, ExecTimeoutError))
    /\ epc' = [epc EXCEPT ![e] = "cleanup"]
    /\ UNCHANGED <<etask, active_coroutines, cpc, cres, clk, queries>>
    /\ UNCHANGED <<warned, routerVars, chatVars, apiVars>>

\* lines 170-173 on the success and timeout paths
Cleanup(e) ==
    /\ epc[e] = "cleanup"
    /\ active_coroutines' = Pop(active_coroutines, etask[e])
    /\ epc' = [epc EXCEPT ![e] = "done"]
    /\ Return(e)
    /\ UNCHANGED <<etask, cpc, queries, sink>>
    /\ UNCHANGED <<warned, routerVars, chatVars, apiVars>>

\* _handle_error without its failure event
HandleErrorNoFinal(e) ==
    /\ epc[e] = "e_final"
    /\ epc' = [epc EXCEPT ![e] = "done"]
    /\ Return(e)
    /\ UNCHANGED <<etask, active_coroutines, cpc, queries, sink>>
    /\ UNCHANGED <<warned, routerVars, chatVars, apiVars>>

\* _handle_error, lines 196-201; execute then returns
HandleErrorFinal(e) ==
    /\ epc[e] = "e_final"
    /\ Enqueue(CreateStatusEvent(e, etask[e], "failed", TRUE, cres[e]))
    /\ epc' = [epc EXCEPT ![e] = "done"]
    /\ Return(e)
    /\ UNCHANGED <<etask, active_coroutines, cpc, queries>>
    /\ UNCHANGED <<warned, routerVars, chatVars, apiVars>>

(* ------------------------------- cancel ------------------------------- *)
\* coroutine.cancel() on a Task: CancelledError is thrown into the computation
\* and reaches execute through wait_for; the finally block pops the entry and
\* `except Exception` does not catch it
CancelTask(co) ==
    /\ cpc' = [cpc EXCEPT ![co.inv] = "cancelled"]
    /\ epc' = [epc EXCEPT ![co.inv] = "cancelled"]

\* cancel without the pop of lines 228-229
CancelKeepsEntry(tid) ==
    LET coroutine == active_coroutines[tid] IN
    /\ coroutine # NoEntry
    /\ IF IsTask(coroutine) /\ epc[coroutine.inv] = "waiting"
       THEN CancelTask(coroutine)
       ELSE UNCHANGED <<epc, cpc>>
    /\ Enqueue(CreateStatusEvent(0, tid, "canceled", TRUE, ""))
    /\ UNCHANGED <<etask, active_coroutines, cres, clk, queries>>
    /\ UNCHANGED <<warned, routerVars, chatVars, apiVars>>

\* cancel, lines 212-234
Cancel(tid) ==
    LET coroutine == active_coroutines[tid] IN
    /\ coroutine # NoEntry
    /\ IF IsTask(coroutine) /\ epc[coroutine.inv] = "waiting"
       THEN CancelTask(coroutine)
       ELSE UNCHANGED <<epc, cpc>>
    /\ active_coroutines' = Pop(active_coroutines, tid)
    /\ Enqueue(CreateStatusEvent(0, tid, "canceled", TRUE, ""))
    /\ UNCHANGED <<etask, cres, clk, queries>>
    /\ UNCHANGED <<warned, routerVars, chatVars, apiVars>>

\* the else branch of cancel that also sends the `canceled` status
CancelInactiveEnqueues(tid) ==
    /\ active_coroutines[tid] = NoEntry
    /\ warned' = LogWarning(warned, tid)
    /\ Enqueue(CreateStatusEvent(0, tid, "canceled", TRUE, ""))
    /\ UNCHANGED <<epc, etask, active_coroutines, cpc, cres, clk, queries>>
    /\ UNCHANGED <<routerVars, chatVars, apiVars>>

\* the else branch of cancel, line 234
CancelInactive(tid) ==
    /\ active_coroutines[tid] = NoEntry
    /\ warned' = LogWarning(warned, tid)
    /\ UNCHANGED <<epc, etask, active_coroutines, cpc, cres, clk, queries, sink>>
    /\ UNCHANGED <<routerVars, chatVars, apiVars>>

(* ------------------------ the Query controller ------------------------ *)
\* the cluster's controller advances a Query through its phases; a Query that
\* no computation reads any more is left as it is
ControllerAdvanceWith(e, choices) ==
    /\ epc[e] = "waiting" /\ cpc[e] \in {"get", "sleep"}
    /\ \/ /\ queries[e].phase = ""
          /\ queries' = [queries EXCEPT ![e].phase = "running"]
       \/ /\ queries[e].phase = "running"
          /\ \E ph \in {"done", "error"}, rs \in choices :
                queries' = [queries EXCEPT ![e] = [phase |-> ph, responses |-> rs]]
    /\ UNCHANGED <<epc, etask, active_coroutines, cpc, cres, clk, sink>>
    /\ UNCHANGED <<warned, routerVars, chatVars, apiVars>>

ControllerAdvance(e) == ControllerAdvanceWith(e, ResponseChoices)

NextExec ==
    \/ \E e \in Execs : \E tid \in ContextTaskIds(e) : ExecuteStart(e, tid)
    \/ \E e \in Execs : Register(e)
    \/ \E e \in Execs : CreateQuery(e)
    \/ \E e \in Execs : CreateQueryFails(e)
    \/ \E e \in Execs : GetQuery(e)
    \/ \E e \in Execs : GetQueryFails(e)
    \/ \E e \in Execs : Sleep(e)
    \/ \E e \in Execs : IOLatency(e)
    \/ \E e \in Execs : WaitForTimeout(e)
    \/ \E e \in Execs : SuccessFinal(e)
    \/ \E e \in Execs : TimeoutFinal(e)
    \/ \E e \in Execs : Cleanup(e)
    \/ \E e \in Execs : HandleErrorFinal(e)
    \/ \E tid \in TaskIds : Cancel(tid)
    \/ \E tid \in TaskIds : CancelInactive(tid)
    \/ \E e \in Execs : ControllerAdvance(e)

SpecExec == Init /\ [][NextExec]_vars

(* --------------- one invocation, every shape of response -------------- *)
\* the controller writes any of DriverResponseChoices
DriverControllerAdvance(e) == ControllerAdvanceWith(e, DriverResponseChoices)

\* post_query_and_wait driven by a single execute
NextDriver ==
    \/ ExecuteStart(1, "t1")
    \/ Register(1)
    \/ CreateQuery(1)
    \/ CreateQueryFails(1)
    \/ GetQuery(1)
    \/ GetQueryFails(1)
    \/ Sleep(1)
    \/ IOLatency(1)
    \/ WaitForTimeout(1)
    \/ SuccessFinal(1)
    \/ TimeoutFinal(1)
    \/ Cleanup(1)
    \/ HandleErrorFinal(1)
    \/ DriverControllerAdvance(1)

SpecDriver == Init /\ [][NextDriver]_vars

(* ------------- executes that overlap on one task identifier ----------- *)
\* two invocations of execute that share the executor and the task identifier
OverlapExecs == {1, 2}

\* the executor after construction, before any of OverlapExecs has started
InitOverlap ==
    /\ epc = [e \in OverlapExecs |-> "idle"]
    /\ etask = [e \in OverlapExecs |-> "t1"]
    /\ active_coroutines = [t \in TaskIds |-> NoEntry]
    /\ cpc = [e \in OverlapExecs |-> "unstarted"]
    /\ cres = [e \in OverlapExecs |-> ""]
    /\ clk = [e \in OverlapExecs |-> 0]
    /\ queries = [e \in OverlapExecs |-> NoQuery]
    /\ sink = [t \in TaskIds |-> <<>>]
    /\ warned = NoCapture
    /\ InitRouter
    /\ InitChat
    /\ InitApi

\* every invocation carries context.task_id = "t1"; cancel requests name "t1"
NextOverlap ==
    \/ \E e \in OverlapExecs : ExecuteStart(e, "t1")
    \/ \E e \in OverlapExecs : Register(e)
    \/ \E e \in OverlapExecs : CreateQuery(e)
    \/ \E e \in OverlapExecs : CreateQueryFails(e)
    \/ \E e \in OverlapExecs : GetQuery(e)
    \/ \E e \in OverlapExecs : GetQueryFails(e)
    \/ \E e \in OverlapExecs : Sleep(e)
    \/ \E e \in OverlapExecs : IOLatency(e)
    \/ \E e \in OverlapExecs : WaitForTimeout(e)
    \/ \E e \in OverlapExecs : SuccessFinal(e)
    \/ \E e \in OverlapExecs : TimeoutFinal(e)
    \/ \E e \in OverlapExecs : Cleanup(e)
    \/ \E e \in OverlapExecs : HandleErrorFinal(e)
    \/ Cancel("t1")
    \/ CancelInactive("t1")
    \/ \E e \in OverlapExecs : ControllerAdvance(e)

SpecOverlap == InitOverlap /\ [][NextOverlap]_vars

(* ------------- one execute and cancels, with the log captured --------- *)
\* the executor after construction, with a handler on its logger
InitCancel ==
    /\ epc = [e \in Execs |-> "idle"]
    /\ etask = [e \in Execs |-> "t1"]
    /\ active_coroutines = [t \in TaskIds |-> NoEntry]
    /\ cpc = [e \in Execs |-> "unstarted"]
    /\ cres = [e \in Execs |-> ""]
    /\ clk = [e \in Execs |-> 0]
    /\ queries = [e \in Execs |-> NoQuery]
    /\ sink = [t \in TaskIds |-> <<>>]
    /\ warned = {}
    /\ InitRouter
    /\ InitChat
    /\ InitApi

\* one execute on "t1" and cancel requests for any task id
NextCancel ==
    \/ ExecuteStart(1, "t1")
    \/ Register(1)
    \/ CreateQuery(1)
    \/ CreateQueryFails(1)
    \/ GetQuery(1)
    \/ GetQueryFails(1)
    \/ Sleep(1)
    \/ IOLatency(1)
    \/ WaitForTimeout(1)
    \/ SuccessFinal(1)
    \/ TimeoutFinal(1)
    \/ Cleanup(1)
    \/ HandleErrorFinal(1)
    \/ \E tid \in TaskIds : Cancel(tid)
    \/ \E tid \in TaskIds : CancelInactive(tid)
    \/ ControllerAdvance(1)

SpecCancel == InitCancel /\ [][NextCancel]_vars

(* ========================= ProxyApp / DynamicManager =================== *)
\* a Starlette app nobody refers to any more is collected
Referenced(a, c, nw, rq) ==
    \/ c = a
    \/ nw = a
    \/ \E r \in Reqs : rq[r].pc \in {"held", "serving"} /\ rq[r].app = a
Collect(ap, c, nw, rq) ==
    [a \in AppIds |-> IF Referenced(a, c, nw, rq) THEN ap[a] ELSE NoApp]
CollectInstalled(ins, c, nw, rq) ==
    [a \in AppIds |-> IF Referenced(a, c, nw, rq) THEN ins[a] ELSE NotInstalled]

\* the cluster changes an Agent record
RegistryChange(n, v) ==
    /\ registry[n] # v
    /\ registry' = [registry EXCEPT ![n] = v]
    /\ fresh' = FALSE
    /\ synced' = FALSE
    /\ UNCHANGED <<agents, cell, apps, mgr, tpc, new_app, todo, req, installed, noError>>
    /\ UNCHANGED <<execVars, chatVars, apiVars>>

\* _sync_with_registry returns: initialize goes on to start_periodic_sync, the
\* loop goes to its sleep
EndTick ==
    /\ tpc' = "idle"
    /\ mgr' = IF mgr = "initializing" THEN "running" ELSE mgr

\* initialize that starts the periodic loop without the initial sync
InitializeSkipsSync ==
    /\ mgr = "created"
    /\ mgr' = "running"
    /\ UNCHANGED <<registry, agents, cell, apps, tpc, new_app, todo, req, installed,
                   fresh, synced, noError>>
    /\ UNCHANGED <<execVars, chatVars, apiVars>>

\* initialize, line 167: the initial sync starts with list_agents
Initialize ==
    /\ mgr = "created"
    /\ mgr' = "initializing"
    /\ tpc' = "fetch"
    /\ UNCHANGED <<registry, agents, cell, apps, new_app, todo, req, installed,
                   fresh, synced, noError>>
    /\ UNCHANGED <<execVars, chatVars, apiVars>>

\* _periodic_sync_loop, lines 113-115: the next sync starts with list_agents
PeriodicTick ==
    /\ mgr = "running" /\ tpc = "idle"
    /\ tpc' = "fetch"
    /\ UNCHANGED <<registry, agents, cell, apps, mgr, new_app, todo, req, installed,
                   fresh, synced, noError>>
    /\ UNCHANGED <<execVars, chatVars, apiVars>>

\* lines 137-145: to_remove
ToRemove(ag, reg) == {n \in AgentNames : ag[n] # NoCard /\ reg[n] = NoCard}
\* lines 148-152: agents to add or update
ToUpsert(ag, reg) ==
    {n \in AgentNames : reg[n] # NoCard /\ (ag[n] = NoCard \/ ag[n] # reg[n])}
\* SyncAgents without the removal of lines 141-145
SyncAgentsKeepsRemoved(ag, reg) ==
    [n \in AgentNames |-> IF n \in ToUpsert(ag, reg) THEN reg[n] ELSE ag[n]]

\* self.agents after lines 136-152
SyncAgents(ag, reg) ==
    [n \in AgentNames |->
        IF n \in ToRemove(ag, reg) THEN NoCard
        ELSE IF n \in ToUpsert(ag, reg) THEN reg[n] ELSE ag[n]]
ChangesDetected(ag, reg) == ToRemove(ag, reg) \cup ToUpsert(ag, reg) # {}

\* lines 130-159: list_agents answered; the delta is applied under self.lock
SyncApply ==
    /\ tpc = "fetch"
    \* a task whose cancellation was requested is resumed with CancelledError
    /\ mgr # "stopping"
    /\ LET registry_agents == ListAgents IN
        /\ agents' = SyncAgents(agents, registry_agents)
        /\ IF ChangesDetected(agents, registry_agents)
           THEN /\ tpc' = "update"
                /\ fresh' = TRUE
                /\ UNCHANGED <<mgr, synced>>
           ELSE /\ EndTick
                /\ fresh' = FALSE
                /\ synced' = TRUE
    /\ UNCHANGED <<registry, cell, apps, new_app, todo, req, installed, noError>>
    /\ UNCHANGED <<execVars, chatVars, apiVars>>

\* list_agents raised and the error leaves the loop
ListAgentsFailsEndsLoop ==
    /\ tpc = "fetch"
    /\ tpc' = "ended"
    /\ mgr' = IF mgr = "initializing" THEN "running" ELSE mgr
    /\ noError' = FALSE
    /\ UNCHANGED <<registry, agents, cell, apps, new_app, todo, req, installed,
                   fresh, synced>>
    /\ UNCHANGED <<execVars, chatVars, apiVars>>

\* lines 130, 161-162: list_agents raised; the error is logged
ListAgentsFails ==
    /\ tpc = "fetch"
    /\ mgr # "stopping"
    /\ EndTick
    /\ noError' = FALSE
    /\ UNCHANGED <<registry, agents, cell, apps, new_app, todo, req, installed,
                   fresh, synced>>
    /\ UNCHANGED <<execVars, chatVars, apiVars>>

\* UpdateRoutesNew that hands the empty app to the proxy before mounting
UpdateRoutesSwapsFirst ==
    /\ tpc = "update"
    /\ \E a \in AppIds :
        /\ ~apps[a].live
        /\ \A b \in AppIds : ~apps[b].live => a <= b
        /\ apps' = [apps EXCEPT ![a] = [live |-> TRUE, mounts |-> NoTable]]
        /\ new_app' = a
        /\ cell' = a
        /\ installed' = [installed EXCEPT ![a] = [set |-> TRUE, table |-> NoTable]]
    /\ todo' = {n \in AgentNames : agents[n] # NoCard}
    /\ tpc' = "mount"
    /\ UNCHANGED <<registry, agents, mgr, req, fresh, synced, noError>>
    /\ UNCHANGED <<execVars, chatVars, apiVars>>

\* _update_routes, line 178: new_app = Starlette()
UpdateRoutesNew ==
    /\ tpc = "update"
    /\ \E a \in AppIds :
        /\ ~apps[a].live
        /\ \A b \in AppIds : ~apps[b].live => a <= b
        /\ apps' = [apps EXCEPT ![a] = [live |-> TRUE, mounts |-> NoTable]]
        /\ new_app' = a
    /\ todo' = {n \in AgentNames : agents[n] # NoCard}
    /\ tpc' = "mount"
    /\ UNCHANGED <<registry, agents, cell, mgr, req, installed, fresh, synced, noError>>
    /\ UNCHANGED <<execVars, chatVars, apiVars>>

\* _update_routes, lines 181-192: one agent's sub-handler is built and mounted
Mount(n) ==
    /\ tpc = "mount" /\ n \in todo
    /\ apps' = [apps EXCEPT ![new_app].mounts[n] = agents[n]]
    /\ todo' = todo \ {n}
    /\ UNCHANGED <<registry, agents, cell, mgr, tpc, new_app, req, installed,
                   fresh, synced, noError>>
    /\ UNCHANGED <<execVars, chatVars, apiVars>>

\* _update_routes raises while it builds; lines 161-162 log the error
RebuildFails ==
    /\ tpc = "mount"
    /\ new_app' = 0
    /\ todo' = {}
    /\ apps' = Collect(apps, cell, 0, req)
    /\ installed' = CollectInstalled(installed, cell, 0, req)
    /\ EndTick
    /\ fresh' = FALSE
    /\ noError' = FALSE
    /\ UNCHANGED <<registry, agents, cell, req, synced>>
    /\ UNCHANGED <<execVars, chatVars, apiVars>>

\* _update_routes, line 195: self.app.set_app(new_app)
SetApp ==
    /\ tpc = "mount" /\ todo = {}
    /\ cell' = new_app
    /\ new_app' = 0
    /\ apps' = Collect(apps, new_app, 0, req)
    /\ installed' = CollectInstalled(
            [installed EXCEPT ![new_app] = [set |-> TRUE, table |-> agents]],
            new_app, 0, req)
    /\ EndTick
    /\ synced' = fresh
    /\ fresh' = FALSE
    /\ UNCHANGED <<registry, agents, todo, req, noError>>
    /\ UNCHANGED <<execVars, chatVars, apiVars>>

\* ProxyApp.__call__ that reads self._app again when it forwards
ForwardTargetRereads(r) == cell

\* ProxyApp.__call__, line 73: the local `app` the request forwards to
ForwardTarget(r) == req[r].app

\* ProxyApp.__call__, lines 54-68: the pointer is read under the lock; None is
\* answered 404 at once
Arrive(r, n) ==
    /\ req[r].pc = "idle"
    \* request slots are anonymous: an arriving request takes the first free one
    /\ \A q \in Reqs : q < r => req[q].pc # "idle"
    /\ req' = [req EXCEPT ![r] =
                IF cell = 0
                THEN Answered(n, NotFound)
                ELSE [pc |-> "held", name |-> n, app |-> cell,
                      seen |-> installed[cell].table, handler |-> NoHandler]]
    /\ UNCHANGED <<registry, agents, cell, apps, mgr, tpc, new_app, todo, installed,
                   fresh, synced, noError>>
    /\ UNCHANGED <<execVars, chatVars, apiVars>>

\* line 73: the Starlette app routes the request to the mount of its agent
Route(r) ==
    /\ req[r].pc = "held"
    /\ LET target == ForwardTarget(r)
           card == apps[target].mounts[req[r].name]
           rq == [req EXCEPT ![r] =
                    IF card # NoCard
                    THEN [@ EXCEPT !.pc = "serving",
                                   !.handler = [app |-> target, name |-> req[r].name,
                                                card |-> card]]
                    ELSE Answered(req[r].name, NotFound)]
       IN /\ req' = rq
          /\ apps' = Collect(apps, cell, new_app, rq)
          /\ installed' = CollectInstalled(installed, cell, new_app, rq)
    /\ UNCHANGED <<registry, agents, cell, mgr, tpc, new_app, todo, fresh, synced, noError>>
    /\ UNCHANGED <<execVars, chatVars, apiVars>>

\* the sub-handler has answered the request and the request is over
Complete(r) ==
    /\ req[r].pc = "serving"
    /\ LET rq == [req EXCEPT ![r] = IdleReq]
       IN /\ req' = rq
          /\ apps' = Collect(apps, cell, new_app, rq)
          /\ installed' = CollectInstalled(installed, cell, new_app, rq)
    /\ UNCHANGED <<registry, agents, cell, mgr, tpc, new_app, todo, fresh, synced, noError>>
    /\ UNCHANGED <<execVars, chatVars, apiVars>>

\* a request answered 404 is over
Forget(r) ==
    /\ req[r].pc = "done"
    /\ req' = [req EXCEPT ![r] = IdleReq]
    /\ UNCHANGED <<registry, agents, cell, apps, mgr, tpc, new_app, todo, installed,
                   fresh, synced, noError>>
    /\ UNCHANGED <<execVars, chatVars, apiVars>>

NextRouter ==
    \/ \E n \in AgentNames : \E v \in VariantsOf(n) \cup {"absent"} : RegistryChange(n, v)
    \/ Initialize
    \/ PeriodicTick
    \/ SyncApply
    \/ ListAgentsFails
    \/ UpdateRoutesNew
    \/ \E n \in AgentNames : Mount(n)
    \/ RebuildFails
    \/ SetApp
    \/ \E r \in Reqs, n \in AgentNames : Arrive(r, n)
    \/ \E r \in Reqs : Route(r)
    \/ \E r \in Reqs : Complete(r)
    \/ \E r \in Reqs : Forget(r)

SpecRouter == Init /\ [][NextRouter]_vars

(* ===================== the OpenAI path: chat_completions =============== *)
\* lines 256-268: `except Exception` answers 500 for whatever was raised inside
\* the try block; fastapi.HTTPException is an Exception and no ValidationError
ExceptException(exc) ==
    /\ kexc' = exc
    /\ khttp' = JsonError(500, "server_error", "internal_error")
    /\ kpc' = "closed"

\* lines 159-182: the request is parsed, the metadata processed, the streaming
\* annotation added; an invalid metadata.ark is answered at once
ChatArrive(stream, md) ==
    /\ kpc = "idle"
    /\ kreq' = [stream |-> stream, md |-> md]
    /\ LET r == ProcessRequestMetadata(md, kmeta) IN
        IF r.error
        THEN /\ kmeta' = r.metadata
             /\ khttp' = JsonError(400, "invalid_request_error", "invalid_ark_metadata")
             /\ kpc' = "closed"
        ELSE /\ kmeta' = IF stream
                         THEN [r.metadata EXCEPT !.hasAnnotations = TRUE,
                                                 !.annotations = @ \cup {StreamingEnabledAnnotation}]
                         ELSE r.metadata
             /\ khttp' = khttp
             /\ kpc' = "create"
    /\ UNCHANGED <<kback, kcfg, kquery, kattempt, kexc, kframes, klines, klog>>
    /\ UNCHANGED <<execVars, routerVars, apiVars>>

\* lines 187-195: the Query with targets=[target] is created
ChatCreate ==
    /\ kpc = "create"
    /\ kquery' = [NoChatQuery EXCEPT !.exists = TRUE, !.targets = 1,
                                     !.input = "messages", !.phase = "",
                                     !.annotations = kmeta.annotations]
    /\ klog' = Append(klog, "create")
    /\ kattempt' = 0
    /\ kpc' = IF kreq.stream THEN "config" ELSE "poll"
    /\ UNCHANGED <<kback, kcfg, kreq, kmeta, kexc, khttp, kframes, klines>>
    /\ UNCHANGED <<execVars, routerVars, apiVars>>

\* a_create raises
ChatCreateFails ==
    /\ kpc = "create"
    /\ ExceptException(ClientError)
    /\ UNCHANGED <<kback, kcfg, kreq, kmeta, kquery, kattempt, kframes, klines, klog>>
    /\ UNCHANGED <<execVars, routerVars, apiVars>>

\* ChatConfig without `not streaming_config.enabled` in line 216: a disabled
\* configuration is handed to the proxy
ChatConfigProxiesDisabled(cfg) ==
    /\ kpc = "config"
    /\ kcfg' = cfg
    /\ IF cfg = "absent"
       THEN /\ kpc' = "poll"
            /\ khttp' = khttp
       ELSE /\ kpc' = "connect"
            /\ khttp' = EventStream
    /\ UNCHANGED <<kback, kreq, kmeta, kquery, kattempt, kexc, kframes, klines, klog>>
    /\ UNCHANGED <<execVars, routerVars, apiVars>>

\* lines 212-242: the streaming configuration is read
ChatConfig(cfg) ==
    /\ kpc = "config"
    /\ kcfg' = cfg
    /\ IF cfg \in {"absent", "disabled"}
       THEN /\ kpc' = "poll"
            /\ khttp' = khttp
       ELSE /\ kpc' = "connect"
            /\ khttp' = EventStream
    /\ UNCHANGED <<kback, kreq, kmeta, kquery, kattempt, kexc, kframes, klines, klog>>
    /\ UNCHANGED <<execVars, routerVars, apiVars>>

\* get_streaming_config or get_streaming_base_url raises
ChatConfigFails ==
    /\ kpc = "config"
    /\ ExceptException(ClientError)
    /\ UNCHANGED <<kback, kcfg, kreq, kmeta, kquery, kattempt, kframes, klines, klog>>
    /\ UNCHANGED <<execVars, routerVars, apiVars>>

(* ------------------------ poll_query_completion ----------------------- *)
\* poll_query_completion returned `completion` to chat_completions: line 200
\* returns it, lines 222-225 answer it as an event stream
Answer(completion) ==
    /\ kpc' = "closed"
    /\ IF kreq.stream
       THEN /\ khttp' = EventStream
            /\ kframes' = CreateSingleChunkSseResponse(completion)
       ELSE /\ khttp' = completion
            /\ kframes' = kframes
    /\ kexc' = kexc

\* PollGet without the limit of range(max_attempts): a non-terminal phase is
\* always followed by the sleep
PollGetUnbounded ==
    /\ kpc = "poll" /\ kquery.exists
    /\ CASE kquery.phase = "done" ->
              /\ IF kquery.responses = <<>>
                 THEN /\ ExceptException(HTTPException(500,
                            [NoDetail EXCEPT !.message = "No response received"]))
                      /\ kframes' = kframes
                 ELSE Answer(Completion(kquery.responses[1].content))
              /\ kattempt' = kattempt
         [] kquery.phase = "error" ->
              /\ ExceptException(HTTPException(500, GetErrorDetail(kquery)))
              /\ UNCHANGED <<kframes, kattempt>>
         [] OTHER ->
              /\ kpc' = "sleep"
              /\ UNCHANGED <<kexc, khttp>>
              /\ UNCHANGED <<kframes, kattempt>>
    /\ UNCHANGED <<kback, kcfg, kreq, kmeta, kquery, klines, klog>>
    /\ UNCHANGED <<execVars, routerVars, apiVars>>

\* lines 106-132: a_get answers
PollGet ==
    /\ kpc = "poll" /\ kquery.exists
    /\ CASE kquery.phase = "done" ->
              /\ IF kquery.responses = <<>>
                 THEN /\ ExceptException(HTTPException(500,
                            [NoDetail EXCEPT !.message = "No response received"]))
                      /\ kframes' = kframes
                 ELSE Answer(Completion(kquery.responses[1].content))
              /\ kattempt' = kattempt
         [] kquery.phase = "error" ->
              /\ ExceptException(HTTPException(500, GetErrorDetail(kquery)))
              /\ UNCHANGED <<kframes, kattempt>>
         [] OTHER ->
              /\ IF kattempt < MaxAttempts - 1
                 THEN /\ kpc' = "sleep"
                      /\ UNCHANGED <<kexc, khttp>>
                 ELSE ExceptException(HTTPException(504,
                            [NoDetail EXCEPT !.message = "timed out after 5 minutes"]))
              /\ UNCHANGED <<kframes, kattempt>>
    /\ UNCHANGED <<kback, kcfg, kreq, kmeta, kquery, klines, klog>>
    /\ UNCHANGED <<execVars, routerVars, apiVars>>

\* a_get raises (the cluster is unreachable, or the Query was deleted)
PollGetFails ==
    /\ kpc = "poll"
    /\ ExceptException(ClientError)
    /\ UNCHANGED <<kback, kcfg, kreq, kmeta, kquery, kattempt, kframes, klines, klog>>
    /\ UNCHANGED <<execVars, routerVars, apiVars>>

\* line 129: asyncio.sleep(5) ends, the next attempt starts
PollSleep ==
    /\ kpc = "sleep"
    /\ kattempt' = kattempt + 1
    /\ kpc' = "poll"
    /\ UNCHANGED <<kback, kcfg, kreq, kmeta, kquery, kexc, khttp, kframes, klines, klog>>
    /\ UNCHANGED <<execVars, routerVars, apiVars>>

\* the Query controller moves the Query while the gateway polls it
ChatControllerAdvance ==
    /\ kpc \in {"poll", "sleep"} /\ kquery.exists
    /\ kquery.phase \in {"", "running"}
    /\ \/ /\ kquery.phase = ""
          /\ kquery' = [kquery EXCEPT !.phase = "running"]
       \/ \E rs \in ChatResponseChoices :
            kquery' = [kquery EXCEPT !.phase = "done", !.responses = rs]
       \/ \E rs \in ChatResponseChoices, m \in MessageChoices :
            kquery' = [kquery EXCEPT !.phase = "error", !.responses = rs, !.message = m]
    /\ UNCHANGED <<kback, kcfg, kpc, kreq, kmeta, kattempt, kexc, khttp, kframes, klines, klog>>
    /\ UNCHANGED <<execVars, routerVars, apiVars>>

(* ----------------------- proxy_streaming_response --------------------- *)
\* lines 104-149: the backend answers the GET; a status other than 200 gives
\* one error frame and ends the generator
ProxyConnect(status, body, lines) ==
    /\ kpc = "connect"
    /\ kback' = [status |-> status, body |-> IF status # 200 THEN body ELSE "",
                 lines |-> IF status # 200 THEN <<>> ELSE lines]
    /\ IF status # 200
       THEN /\ kframes' = << Frame(DataPrefix \o Json \o <<NL, NL>>, ErrorData(status, body)) >>
            /\ klines' = <<>>
            /\ kpc' = "closed"
       ELSE /\ kframes' = kframes
            /\ klines' = lines
            /\ kpc' = "forward"
    /\ UNCHANGED <<kcfg, kreq, kmeta, kquery, kattempt, kexc, khttp, klog>>
    /\ UNCHANGED <<execVars, routerVars, apiVars>>

\* the connection fails: the generator raises after the 200 headers are sent
ProxyConnectFails ==
    /\ kpc = "connect"
    /\ kexc' = ClientError
    /\ kpc' = "closed"
    /\ UNCHANGED <<kback, kcfg, kreq, kmeta, kquery, kattempt, khttp, kframes, klines, klog>>
    /\ UNCHANGED <<execVars, routerVars, apiVars>>

\* lines 151-154: one line of aiter_lines
ProxyForward ==
    /\ kpc = "forward" /\ klines # <<>>
    /\ LET line == Head(klines) IN
        kframes' = IF Strip(line) # <<>>
                   THEN Append(kframes, Frame(line \o <<NL, NL>>, NoPayload))
                   ELSE kframes
    /\ klines' = Tail(klines)
    /\ UNCHANGED <<kback, kcfg, kpc, kreq, kmeta, kquery, kattempt, kexc, khttp, klog>>
    /\ UNCHANGED <<execVars, routerVars, apiVars>>

\* aiter_lines raises (the connection to the backend breaks while the lines
\* are read): nothing catches it inside the generator
ProxyReadFails ==
    /\ kpc = "forward"
    /\ kexc' = ClientError
    /\ kpc' = "closed"
    /\ UNCHANGED <<kback, kcfg, kreq, kmeta, kquery, kattempt, khttp, kframes, klines, klog>>
    /\ UNCHANGED <<execVars, routerVars, apiVars>>

\* the backend closes the stream
ProxyEnd ==
    /\ kpc = "forward" /\ klines = <<>>
    /\ kpc' = "closed"
    /\ UNCHANGED <<kback, kcfg, kreq, kmeta, kquery, kattempt, kexc, khttp, kframes, klines, klog>>
    /\ UNCHANGED <<execVars, routerVars, apiVars>>

(* ------------------------- the Query routes --------------------------- *)
\* PUT /queries/{query_name}: update_query replaces the fields the body gives
UpdateQuery ==
    /\ kquery.exists /\ kquery.input # "updated"
    /\ kquery' = [kquery EXCEPT !.input = "updated"]
    /\ klog' = Append(klog, "update")
    /\ UNCHANGED <<kback, kcfg, kpc, kreq, kmeta, kattempt, kexc, khttp, kframes, klines>>
    /\ UNCHANGED <<execVars, routerVars, apiVars>>

\* PATCH /queries/{query_name}/cancel
CancelQuery ==
    /\ kquery.exists /\ ~kquery.cancel
    /\ kquery' = [kquery EXCEPT !.cancel = TRUE]
    /\ klog' = Append(klog, "cancel-patch")
    /\ UNCHANGED <<kback, kcfg, kpc, kreq, kmeta, kattempt, kexc, khttp, kframes, klines>>
    /\ UNCHANGED <<execVars, routerVars, apiVars>>

\* DELETE /queries/{query_name}
DeleteQuery ==
    /\ kquery.exists
    /\ kquery' = NoChatQuery
    /\ klog' = Append(klog, "delete")
    /\ UNCHANGED <<kback, kcfg, kpc, kreq, kmeta, kattempt, kexc, khttp, kframes, klines>>
    /\ UNCHANGED <<execVars, routerVars, apiVars>>

\* the response is complete; the next request starts from a new metadata dict
\* and a new Query name
ChatReset ==
    /\ kpc = "closed"
    /\ kpc' = "idle"
    /\ kreq' = NoChatReq
    /\ kmeta' = BaseMetadata
    /\ kquery' = NoChatQuery
    /\ kattempt' = 0
    /\ kexc' = NoExc
    /\ khttp' = NoHttp
    /\ kframes' = <<>>
    /\ klines' = <<>>
    /\ klog' = <<>>
    /\ kcfg' = "unread"
    /\ kback' = NoBackend
    /\ UNCHANGED <<execVars, routerVars, apiVars>>

NextChat ==
    \/ \E stream \in BOOLEAN, md \in MdKinds : ChatArrive(stream, md)
    \/ ChatCreate
    \/ ChatCreateFails
    \/ \E cfg \in {"absent", "disabled", "enabled"} : ChatConfig(cfg)
    \/ ChatConfigFails
    \/ PollGet
    \/ PollGetFails
    \/ PollSleep
    \/ ChatControllerAdvance
    \/ \E status \in BackendStatuses, body \in BodyChoices, lines \in LineSeqs(MaxLines) :
            ProxyConnect(status, body, lines)
    \/ ProxyConnectFails
    \/ ProxyForward
    \/ ProxyReadFails
    \/ ProxyEnd
    \/ UpdateQuery
    \/ CancelQuery
    \/ DeleteQuery
    \/ ChatReset

SpecChat == Init /\ [][NextChat]_vars

(* ======================= sessions: delete_session ====================== *)
\* a DELETE /sessions/{session_id} request arrives
SessArrive ==
    /\ spc = "idle"
    /\ spc' = "listing"
    /\ UNCHANGED <<memory_dicts, scalls, deleted_count, failed_services, shttp>>
    /\ UNCHANGED <<execVars, routerVars, chatVars, authVars, nameVars, lifeVars, restVars>>

\* line 84: get_all_memory_resources returns n Memory resources
SessList(n) ==
    /\ spc = "listing"
    /\ memory_dicts' = MemoryNames(n)
    /\ spc' = "looping"
    /\ UNCHANGED <<scalls, deleted_count, failed_services, shttp>>
    /\ UNCHANGED <<execVars, routerVars, chatVars, authVars, nameVars, lifeVars, restVars>>

\* line 84 raises an ApiException: handle_k8s_errors answers with its status
SessListFails(status) ==
    /\ spc = "listing"
    /\ shttp' = SessHTTPException(status, "Kubernetes API error")
    /\ spc' = "list_failed"
    /\ UNCHANGED <<memory_dicts, scalls, deleted_count, failed_services>>
    /\ UNCHANGED <<execVars, routerVars, chatVars, authVars, nameVars, lifeVars, restVars>>

\* the loop body that records a 500 as a failed service and goes on
SessContactContinuesOn500(o) ==
    LET name == memory_dicts[Len(scalls) + 1] IN
    /\ spc = "looping"
    /\ Len(scalls) < Len(memory_dicts)
    /\ scalls' = Append(scalls, o)
    /\ IF o.kind = "exception" \/ o.status = 500
       THEN /\ failed_services' = Append(failed_services, name)
            /\ UNCHANGED <<deleted_count, shttp, spc>>
       ELSE IF IsSuccess(o.status)
       THEN /\ deleted_count' = deleted_count + 1
            /\ UNCHANGED <<failed_services, shttp, spc>>
       ELSE UNCHANGED <<deleted_count, failed_services, shttp, spc>>
    /\ UNCHANGED memory_dicts
    /\ UNCHANGED <<execVars, routerVars, chatVars, authVars, nameVars, lifeVars, restVars>>

\* lines 89-119: one iteration of the loop over memory_dicts
SessContact(o) ==
    LET name == memory_dicts[Len(scalls) + 1] IN
    /\ spc = "looping"
    /\ Len(scalls) < Len(memory_dicts)
    /\ scalls' = Append(scalls, o)
    /\ IF o.kind = "exception"
       THEN /\ failed_services' = Append(failed_services, name)
            /\ UNCHANGED <<deleted_count, shttp, spc>>
       ELSE IF IsSuccess(o.status)
       THEN /\ deleted_count' = deleted_count + 1
            /\ UNCHANGED <<failed_services, shttp, spc>>
       ELSE IF o.status = 404
       THEN UNCHANGED <<deleted_count, failed_services, shttp, spc>>
       ELSE IF o.status = 500
       THEN /\ shttp' = SessHTTPException(500, "Failed to delete session from database")
            /\ spc' = "answered"
            /\ UNCHANGED <<deleted_count, failed_services>>
       ELSE UNCHANGED <<deleted_count, failed_services, shttp, spc>>
    /\ UNCHANGED memory_dicts
    /\ UNCHANGED <<execVars, routerVars, chatVars, authVars, nameVars, lifeVars, restVars>>

\* after the loop, with 503 whenever a service could not be reached
SessFinishIgnoresDeleted ==
    /\ spc = "looping"
    /\ Len(scalls) = Len(memory_dicts)
    /\ shttp' = IF Len(memory_dicts) > 0 /\ failed_services # <<>>
                THEN SessHTTPException(503, "Could not reach any memory services")
                ELSE DeletedAnswer(deleted_count)
    /\ spc' = "answered"
    /\ UNCHANGED <<memory_dicts, scalls, deleted_count, failed_services>>
    /\ UNCHANGED <<execVars, routerVars, chatVars, authVars, nameVars, lifeVars, restVars>>

\* lines 121-127: after the loop
SessFinish ==
    /\ spc = "looping"
    /\ Len(scalls) = Len(memory_dicts)
    /\ shttp' = IF Len(memory_dicts) > 0 /\ deleted_count = 0 /\ failed_services # <<>>
                THEN SessHTTPException(503, "Could not reach any memory services")
                ELSE DeletedAnswer(deleted_count)
    /\ spc' = "answered"
    /\ UNCHANGED <<memory_dicts, scalls, deleted_count, failed_services>>
    /\ UNCHANGED <<execVars, routerVars, chatVars, authVars, nameVars, lifeVars, restVars>>

\* the request is over; the next one starts from fresh locals
SessReset ==
    /\ spc \in {"answered", "list_failed"}
    /\ spc' = "idle"
    /\ memory_dicts' = <<>>
    /\ scalls' = <<>>
    /\ deleted_count' = 0
    /\ failed_services' = <<>>
    /\ shttp' = NoAnswer
    /\ UNCHANGED <<execVars, routerVars, chatVars, authVars, nameVars, lifeVars, restVars>>

NextSess ==
    \/ SessArrive
    \/ \E n \in 0..MaxMem : SessList(n)
    \/ \E status \in ListErrorStatuses : SessListFails(status)
    \/ \E o \in MemoryOutcomes : SessContact(o)
    \/ SessFinish
    \/ SessReset

SpecSess == Init /\ [][NextSess]_vars

(* ========================= AuthMiddleware.dispatch ===================== *)
\* a request arrives while AUTH_MODE holds `mode`
AuthArrive(mode, protected, header) ==
    /\ apc = "idle"
    /\ areq' = [mode |-> mode, protected |-> protected, header |-> header]
    /\ apc' = "dispatch"
    /\ UNCHANGED <<ahttp, ahandled>>
    /\ UNCHANGED <<execVars, routerVars, chatVars, sessVars, nameVars, lifeVars, restVars>>

\* dispatch that tries the Basic credentials whatever the mode
AuthDispatchBasicInEveryMode ==
    LET auth_mode == DispatchAuthMode(areq.mode)
        jwt_enabled == auth_mode \in {"sso", "hybrid"}
        auth_disabled == auth_mode = "open"
        auth_header == areq.header
        auth_success ==
            IF jwt_enabled /\ auth_header.scheme = "Bearer"
            THEN auth_header.credential = "valid"
            ELSE IF auth_header.scheme = "Basic"
            THEN auth_header.credential = "valid"
            ELSE FALSE
    IN
    /\ apc = "dispatch"
    /\ IF auth_disabled \/ ~areq.protected \/ (auth_header # NoHeader /\ auth_success)
       THEN /\ ahandled' = TRUE
            /\ apc' = "handler"
            /\ UNCHANGED ahttp
       ELSE /\ ahttp' = Unauthorized
            /\ apc' = "answered"
            /\ UNCHANGED ahandled
    /\ UNCHANGED areq
    /\ UNCHANGED <<execVars, routerVars, chatVars, sessVars, nameVars, lifeVars, restVars>>

\* dispatch, lines 90-195: either call_next is awaited or 401 is returned
AuthDispatch ==
    LET auth_mode == DispatchAuthMode(areq.mode)
        jwt_enabled == auth_mode \in {"sso", "hybrid"}
        basic_enabled == auth_mode \in {"basic", "hybrid"}
        auth_disabled == auth_mode = "open"
        auth_header == areq.header
        \* lines 123-175: validate_token returned without raising, or
        \* verify_api_key returned the key data
        auth_success ==
            IF jwt_enabled /\ auth_header.scheme = "Bearer"
            THEN auth_header.credential = "valid"
            ELSE IF basic_enabled /\ auth_header.scheme = "Basic"
            THEN auth_header.credential = "valid"
            ELSE FALSE
    IN
    /\ apc = "dispatch"
    /\ IF auth_disabled \/ ~areq.protected \/ (auth_header # NoHeader /\ auth_success)
       THEN /\ ahandled' = TRUE
            /\ apc' = "handler"
            /\ UNCHANGED ahttp
       ELSE /\ ahttp' = Unauthorized
            /\ apc' = "answered"
            /\ UNCHANGED ahandled
    /\ UNCHANGED areq
    /\ UNCHANGED <<execVars, routerVars, chatVars, sessVars, nameVars, lifeVars, restVars>>

\* the route handler returns its response through the middleware
AuthHandlerReturns ==
    /\ apc = "handler"
    /\ ahttp' = HandlerResponse
    /\ apc' = "answered"
    /\ UNCHANGED <<areq, ahandled>>
    /\ UNCHANGED <<execVars, routerVars, chatVars, sessVars, nameVars, lifeVars, restVars>>

\* the request is over
AuthReset ==
    /\ apc = "answered"
    /\ apc' = "idle"
    /\ areq' = NoAuthReq
    /\ ahttp' = NoAuthAnswer
    /\ ahandled' = FALSE
    /\ UNCHANGED <<execVars, routerVars, chatVars, sessVars, nameVars, lifeVars, restVars>>

NextAuth ==
    \/ \E mode \in EnvAuthModes : \E protected \in BOOLEAN : \E header \in AuthHeaders :
          AuthArrive(mode, protected, header)
    \/ AuthDispatch
    \/ AuthHandlerReturns
    \/ AuthReset

SpecAuth == Init /\ [][NextAuth]_vars

(* =============================== post_query =========================== *)
\* lines 30-51 when the cluster holds no Query of the drawn name: a_create
\* stores the Query and post_query returns the name
PostQuery(hex) ==
    /\ Len(created) < MaxCalls
    /\ QueryName(hex) \notin cluster_names
    /\ cluster_names' = cluster_names \cup {QueryName(hex)}
    /\ created' = Append(created, QueryName(hex))
    /\ UNCHANGED <<execVars, routerVars, chatVars, sessVars, authVars, lifeVars, restVars>>

\* lines 30-49 when a Query of the drawn name exists: a_create raises (409
\* AlreadyExists) and nothing is created
PostQueryConflict(hex) ==
    /\ QueryName(hex) \in cluster_names
    /\ UNCHANGED <<cluster_names, created>>
    /\ UNCHANGED <<execVars, routerVars, chatVars, sessVars, authVars, lifeVars, restVars>>

\* queries.py delete_query: a Query is deleted from the cluster
QueryDeleted(name) ==
    /\ name \in cluster_names
    /\ cluster_names' = cluster_names \ {name}
    /\ UNCHANGED created
    /\ UNCHANGED <<execVars, routerVars, chatVars, sessVars, authVars, lifeVars, restVars>>

NextNames ==
    \/ \E hex \in HexChoices : PostQuery(hex)
    \/ \E hex \in HexChoices : PostQueryConflict(hex)
    \/ \E name \in {QueryName(hex) : hex \in HexChoices} : QueryDeleted(name)

SpecNames == Init /\ [][NextNames]_vars

(* ================== process_request_metadata, by values ================ *)
\* a caller passes request_metadata and its base_metadata dict
MetaCall(rmd, base) ==
    /\ mpc = "idle"
    /\ mpc' = "called"
    /\ request_metadata' = rmd
    /\ base_metadata' = base
    /\ base_before' = base
    /\ error_response' = FALSE
    /\ UNCHANGED <<execVars, routerVars, chatVars, sessVars, authVars, nameVars, lifeVars, lockVars, swapVars, keyVars>>

\* lines 63-95: the function runs and returns
MetaReturn ==
    /\ mpc = "called"
    /\ LET r == MergeArkAnnotations(request_metadata, base_metadata) IN
        /\ base_metadata' = r.metadata
        /\ error_response' = r.error
    /\ mpc' = "returned"
    /\ UNCHANGED <<request_metadata, base_before>>
    /\ UNCHANGED <<execVars, routerVars, chatVars, sessVars, authVars, nameVars, lifeVars, lockVars, swapVars, keyVars>>

NextMeta ==
    \/ \E rmd \in RequestMetadatas, base \in BaseMetadatas : MetaCall(rmd, base)
    \/ MetaReturn

SpecMeta == Init /\ [][NextMeta]_vars

(* ============ ARKAgentExecutor.tasks_lock, lock step by lock step ====== *)
LockFrame == UNCHANGED <<execVars, routerVars, chatVars, sessVars, authVars, nameVars,
                         lifeVars, metaVars, swapVars, keyVars>>

\* execute is called: line 125 awaits the `working` status; cancel is called:
\* line 215 asks for the lock
LockArrive(p) ==
    /\ lpc[p] = "idle"
    /\ lpc' = [lpc EXCEPT ![p] = IF p \in LockExecutes THEN "send_working" ELSE "lock1"]
    /\ UNCHANGED <<tasks_lock, lmap, found>>
    /\ LockFrame

\* an awaited write to the event queue returns: after the `working` status
\* line 131 asks for the lock; after the result or the timeout events the
\* finally block of line 170 asks for it; after _handle_error and after the
\* canceled status the invocation ends
LockSinkWrite(p) ==
    /\ lpc[p] \in SinkWaits
    /\ lpc' = [lpc EXCEPT ![p] =
                CASE lpc[p] = "send_working" -> "lock1"
                  [] lpc[p] = "send_result" -> "lock2"
                  [] OTHER -> "done"]
    /\ UNCHANGED <<tasks_lock, lmap, found>>
    /\ LockFrame

\* asyncio.Lock.acquire of `async with self.tasks_lock` (lines 131, 171, 215, 228)
LockAcquire(p) ==
    /\ lpc[p] \in {"lock1", "lock2"}
    /\ tasks_lock = "free"
    /\ tasks_lock' = p
    /\ lpc' = [lpc EXCEPT ![p] =
                CASE lpc[p] = "lock2" -> "pop"
                  [] p \in LockExecutes -> "store"
                  [] OTHER -> "get"]
    /\ UNCHANGED <<lmap, found>>
    /\ LockFrame

\* the statement inside the block: line 132 stores, line 216 reads, lines 172
\* and 229 pop
LockBody(p) ==
    /\ lpc[p] \in {"store", "get", "pop"}
    /\ tasks_lock = p
    /\ lmap' = CASE lpc[p] = "store" -> p [] lpc[p] = "pop" -> "none" [] OTHER -> lmap
    /\ found' = IF lpc[p] = "get" THEN lmap # "none" ELSE found
    /\ lpc' = [lpc EXCEPT ![p] = IF lpc[p] = "pop" THEN "release2" ELSE "release1"]
    /\ UNCHANGED tasks_lock
    /\ LockFrame

\* LockRelease that leaves the first block of execute without releasing, as if
\* line 136 were inside the `async with` of line 131
LockReleaseAfterWaitFor(p, raised) ==
    /\ lpc[p] \in {"release1", "release2"}
    /\ tasks_lock = p
    /\ tasks_lock' = IF p \in LockExecutes /\ lpc[p] = "release1" THEN p ELSE "free"
    /\ lpc' = [lpc EXCEPT ![p] =
                CASE p \in LockExecutes /\ lpc[p] = "release1" -> "wait_for"
                  [] p \in LockExecutes -> IF raised THEN "send_error" ELSE "done"
                  [] lpc[p] = "release1" -> IF found THEN "lock2" ELSE "done"
                  [] OTHER -> "send_cancel"]
    /\ UNCHANGED <<lmap, found>>
    /\ LockFrame

\* the end of an `async with` block releases the lock.  execute goes on to
\* wait_for (line 136) after the first block and, after the second, to
\* _handle_error when an exception is on its way (line 175) or to its end;
\* cancel goes on to line 218: the second block when it found an entry, the
\* warning otherwise, and after the second block to the canceled status
LockRelease(p, raised) ==
    /\ lpc[p] \in {"release1", "release2"}
    /\ tasks_lock = p
    /\ tasks_lock' = "free"
    /\ lpc' = [lpc EXCEPT ![p] =
                CASE p \in LockExecutes /\ lpc[p] = "release1" -> "wait_for"
                  [] p \in LockExecutes -> IF raised THEN "send_error" ELSE "done"
                  [] lpc[p] = "release1" -> IF found THEN "lock2" ELSE "done"
                  [] OTHER -> "send_cancel"]
    /\ UNCHANGED <<lmap, found>>
    /\ LockFrame

\* wait_for ends: with the result or with TimeoutError the events are written
\* (lines 140-144, 156-165) before the finally block; with another exception
\* the finally block comes first
LockWaitForEnds(p, raised) ==
    /\ lpc[p] = "wait_for"
    /\ lpc' = [lpc EXCEPT ![p] = IF raised THEN "lock2" ELSE "send_result"]
    /\ UNCHANGED <<tasks_lock, lmap, found>>
    /\ LockFrame

NextLock ==
    \/ \E p \in LockProcs : LockArrive(p)
    \/ \E p \in LockProcs : LockSinkWrite(p)
    \/ \E p \in LockProcs : LockAcquire(p)
    \/ \E p \in LockProcs : LockBody(p)
    \/ \E p \in LockProcs, raised \in BOOLEAN : LockRelease(p, raised)
    \/ \E p \in LockExecutes, raised \in BOOLEAN : LockWaitForEnds(p, raised)

SpecLock == Init /\ [][NextLock]_vars

(* ============= a cancel request after the app was replaced ============= *)
\* the mounts of the app the proxy serves
CellMounts == IF cell = 0 THEN NoTable ELSE apps[cell].mounts
\* request r is being served by the sub-handler of req[r].handler (its execute
\* is in flight, the task is in that executor's map and task store) when a
\* cancel for the task arrives: ProxyApp reads the current app (manager.py
\* 54-73) and the app routes by agent name.  _update_routes (181-185) gives
\* every app new ARKAgentExecutor and InMemoryTaskStore objects for every
\* agent, so the task is found only in the app that serves r
CancelAfterSwap(r) ==
    /\ req[r].pc = "serving"
    /\ cell # 0
    /\ cancel_outcome' =
            CASE CellMounts[req[r].name] = NoCard -> "no agent"
              [] cell = req[r].handler.app -> "canceled"
              [] OTHER -> "no task"
    /\ UNCHANGED <<execVars, routerVars, chatVars, sessVars, authVars, nameVars, lifeVars,
                   metaVars, lockVars, keyVars>>

\* the registry creates and deletes agents; no call fails
NextSwap ==
    \/ \E n \in AgentNames : \E v \in {"plain", "absent"} : RegistryChange(n, v)
    \/ Initialize
    \/ PeriodicTick
    \/ SyncApply
    \/ UpdateRoutesNew
    \/ \E n \in AgentNames : Mount(n)
    \/ SetApp
    \/ \E r \in Reqs, n \in AgentNames : Arrive(r, n)
    \/ \E r \in Reqs : Route(r)
    \/ \E r \in Reqs : Complete(r)
    \/ \E r \in Reqs : Forget(r)
    \/ \E r \in Reqs : CancelAfterSwap(r)

SpecSwap == Init /\ [][NextSwap]_vars

(* ============ APIKeyService: verify_api_key and delete_api_key ========= *)
KeyFrame == UNCHANGED <<execVars, routerVars, chatVars, sessVars, authVars, nameVars,
                        lifeVars, metaVars, lockVars, swapVars>>

\* get_api_key_by_public_key, lines 359-372: the key is usable when the data
\* say active and the annotation has no deletedAt
Usable(s) == s.is_active /\ s.deleted_at = NoTime

\* verify_api_key is called with a secret key
VerifyCall(v, sk) ==
    /\ vpc[v] = "idle"
    /\ vpc' = [vpc EXCEPT ![v] = IF sk = "good" THEN "get" ELSE "get_bad"]
    /\ vlater' = [vlater EXCEPT ![v] = (dresult = "True")]
    /\ UNCHANGED <<secret, dpc, dsecret, dresult, vsecret, vresult>>
    /\ KeyFrame

\* lines 408-414: the read of get_api_key_by_public_key answers; an unusable
\* key and a wrong secret key both return None
VerifyGet(v) ==
    /\ vpc[v] \in {"get", "get_bad"}
    /\ IF Usable(secret) /\ vpc[v] = "get"
          THEN /\ vpc' = [vpc EXCEPT ![v] = "read"]
               /\ UNCHANGED vresult
          ELSE /\ vpc' = [vpc EXCEPT ![v] = "idle"]
               /\ vresult' = [vresult EXCEPT ![v] = "None"]
    /\ UNCHANGED <<secret, dpc, dsecret, dresult, vsecret, vlater>>
    /\ KeyFrame

\* _update_last_used, lines 434-437: its own read of the secret
UpdateRead(v) ==
    /\ vpc[v] = "read"
    /\ vsecret' = [vsecret EXCEPT ![v] = secret]
    /\ vpc' = [vpc EXCEPT ![v] = "patch"]
    /\ UNCHANGED <<secret, dpc, dsecret, dresult, vresult, vlater>>
    /\ KeyFrame

\* lines 440-458: the annotation is rebuilt with deleted_at as it was read and
\* the whole object read is the body of the patch
LastUsedBody(s) == [s EXCEPT !.last_used_at = "set"]

\* lines 460-464 and 419: the patch is applied, verify_api_key returns the data
UpdatePatch(v) ==
    /\ vpc[v] = "patch"
    /\ secret' = LastUsedBody(vsecret[v])
    /\ vpc' = [vpc EXCEPT ![v] = "idle"]
    /\ vresult' = [vresult EXCEPT ![v] = "data"]
    /\ UNCHANGED <<dpc, dsecret, dresult, vsecret, vlater>>
    /\ KeyFrame

\* lines 466-467: the read or the patch raised; the error is logged and
\* verify_api_key returns the data all the same
UpdateFails(v) ==
    /\ vpc[v] \in {"read", "patch"}
    /\ vpc' = [vpc EXCEPT ![v] = "idle"]
    /\ vresult' = [vresult EXCEPT ![v] = "data"]
    /\ UNCHANGED <<secret, dpc, dsecret, dresult, vsecret, vlater>>
    /\ KeyFrame

\* delete_api_key is called
DeleteCall ==
    /\ dpc = "idle"
    /\ dresult = "none"
    /\ dpc' = "read"
    /\ UNCHANGED <<secret, dsecret, dresult, vpc, vsecret, vresult, vlater>>
    /\ KeyFrame

\* lines 487-490: its read of the secret
DeleteRead ==
    /\ dpc = "read"
    /\ dsecret' = secret
    /\ dpc' = "patch"
    /\ UNCHANGED <<secret, dresult, vpc, vsecret, vresult, vlater>>
    /\ KeyFrame

\* lines 492-515: deletedAt is now, string_data["is_active"] is "false", the
\* rest is as it was read
DeleteBody(s) == [s EXCEPT !.deleted_at = "set", !.is_active = FALSE]

\* lines 518-525: the patch is applied, delete_api_key returns True
DeletePatch ==
    /\ dpc = "patch"
    /\ secret' = DeleteBody(dsecret)
    /\ dpc' = "idle"
    /\ dresult' = "True"
    /\ UNCHANGED <<dsecret, vpc, vsecret, vresult, vlater>>
    /\ KeyFrame

\* lines 527-534: the read or the patch raised, delete_api_key returns False
DeleteFails ==
    /\ dpc \in {"read", "patch"}
    /\ dpc' = "idle"
    /\ dresult' = "False"
    /\ UNCHANGED <<secret, dsecret, vpc, vsecret, vresult, vlater>>
    /\ KeyFrame

NextKeys ==
    \/ \E v \in Verifiers, sk \in SecretKeys : VerifyCall(v, sk)
    \/ \E v \in Verifiers : VerifyGet(v)
    \/ \E v \in Verifiers : UpdateRead(v)
    \/ \E v \in Verifiers : UpdatePatch(v)
    \/ \E v \in Verifiers : UpdateFails(v)
    \/ DeleteCall
    \/ DeleteRead
    \/ DeletePatch
    \/ DeleteFails

SpecKeys == Init /\ [][NextKeys]_vars

(* ================== DynamicManager: start-up and shutdown ============== *)
\* main.py lifespan, line 92: after `await a2a_manager.initialize()` returned.
\* The reconcile task exists by then; whether its first tick starts before or
\* after the mount is left open
LifespanMount ==
    /\ mgr = "running" /\ ~surface
    /\ surface' = TRUE
    /\ UNCHANGED <<execVars, routerVars, chatVars, sessVars, authVars, nameVars, restVars>>

\* shutdown -> stop_periodic_sync, lines 103-105: _running = False and
\* _refresh_task.cancel(). shutdown runs on the event loop of the reconcile
\* task, so that task is suspended in asyncio.sleep or in list_agents
StopPeriodicSync ==
    /\ mgr = "running" /\ surface
    /\ tpc \in {"idle", "fetch"}
    /\ mgr' = "stopping"
    /\ UNCHANGED <<registry, agents, cell, apps, tpc, new_app, todo, req, installed,
                   fresh, synced, noError>>
    /\ UNCHANGED <<execVars, chatVars, apiVars>>

\* the cancelled loop that runs the tick in flight to its end and then leaves
LoopCancelledFinishesTick ==
    /\ mgr = "stopping" /\ tpc \in {"idle", "fetch"}
    /\ IF tpc = "fetch"
       THEN /\ agents' = SyncAgents(agents, ListAgents)
            /\ IF ChangesDetected(agents, ListAgents)
               THEN \E a \in AppIds :
                      /\ ~apps[a].live
                      /\ \A b \in AppIds : ~apps[b].live => a <= b
                      /\ cell' = a
                      /\ apps' = Collect([apps EXCEPT ![a] =
                                    [live |-> TRUE, mounts |-> SyncAgents(agents, ListAgents)]],
                                    a, 0, req)
                      /\ installed' = CollectInstalled([installed EXCEPT ![a] =
                                    [set |-> TRUE, table |-> SyncAgents(agents, ListAgents)]],
                                    a, 0, req)
               ELSE UNCHANGED <<cell, apps, installed>>
       ELSE UNCHANGED <<agents, cell, apps, installed>>
    /\ tpc' = "ended"
    /\ fresh' = FALSE
    /\ UNCHANGED <<registry, mgr, new_app, todo, req, synced, noError>>
    /\ UNCHANGED <<execVars, chatVars, apiVars>>

\* CancelledError is thrown into the reconcile task where it is suspended:
\* in asyncio.sleep lines 120-123 catch it and break; in list_agents neither
\* `except Exception` (161, 116) catches it and it ends the task
LoopCancelled ==
    /\ mgr = "stopping" /\ tpc \in {"idle", "fetch"}
    /\ tpc' = "ended"
    /\ fresh' = FALSE
    /\ UNCHANGED <<registry, agents, cell, apps, mgr, new_app, todo, req, installed,
                   synced, noError>>
    /\ UNCHANGED <<execVars, chatVars, apiVars>>

\* stop_periodic_sync, lines 106-109: the awaited task is over; shutdown returns
ShutdownReturns ==
    /\ mgr = "stopping" /\ tpc = "ended"
    /\ mgr' = "stopped"
    /\ UNCHANGED <<registry, agents, cell, apps, tpc, new_app, todo, req, installed,
                   fresh, synced, noError>>
    /\ UNCHANGED <<execVars, chatVars, apiVars>>

\* the manager from start-up to shutdown, without requests
NextManager ==
    \/ \E n \in AgentNames : \E v \in VariantsOf(n) \cup {"absent"} : RegistryChange(n, v)
    \/ Initialize
    \/ LifespanMount
    \/ PeriodicTick
    \/ SyncApply
    \/ ListAgentsFails
    \/ UpdateRoutesNew
    \/ \E n \in AgentNames : Mount(n)
    \/ RebuildFails
    \/ SetApp
    \/ StopPeriodicSync
    \/ LoopCancelled
    \/ ShutdownReturns

SpecManager == Init /\ [][NextManager]_vars

\* asyncio.sleep(POLL_INTERVAL) returns, a cancellation is delivered, and an
\* awaited task that is over wakes its waiter
SpecManagerLive ==
    /\ SpecManager
    /\ WF_vars(PeriodicTick)
    /\ WF_vars(LoopCancelled)
    /\ WF_vars(ShutdownReturns)

(* ======================= claims about the executor ===================== *)
\* the events one execute invocation enqueued, in order
EventsBy(e) == SelectSeq(sink[etask[e]], LAMBDA ev : ev.by = e)
IsFinal(ev) == ev.kind = "status" /\ ev.final
IsWorking(ev) == ev.kind = "status" /\ ev.state = "working" /\ ~ev.final
Finals(evs) == SelectSeq(evs, IsFinal)
Canceled(tid) == SelectSeq(sink[tid], LAMBDA ev : ev.kind = "status" /\ ev.state = "canceled")
\* execute has returned to its caller
Terminated(e) == epc[e] = "done"
\* the execute invocations that stored a computation under a task id
Registrations(tid) == {e \in Execs : etask[e] = tid /\ epc[e] \notin {"idle", "working"}}
\* the invocation ended by one of the two timeouts
TimedOut(e) == cpc[e] = "cancelled" \/ (cpc[e] = "raised" /\ cres[e] = DriverTimeoutMessage)

\* C1: an execute invocation never enqueues more than one final status event;
\* once it has terminated it has enqueued exactly one, that event is its last
\* event, and on success its first event is its only non-final `working` status.
C1_OneFinalEventLast ==
    \A e \in Execs :
        LET evs == EventsBy(e) IN
        /\ Len(Finals(evs)) <= 1
        /\ Terminated(e) =>
            /\ Len(Finals(evs)) = 1
            /\ IsFinal(evs[Len(evs)])
            /\ cpc[e] = "returned" =>
                /\ Len(SelectSeq(evs, IsWorking)) = 1
                /\ IsWorking(evs[1])

C1_Witness ==
    \E e \in Execs : Terminated(e) /\ cpc[e] = "returned" /\ Len(EventsBy(e)) = 3

\* C2 (as claimed): a cancel that finds the computation of an execute that is
\* awaiting its query cancels that computation in the same step in which it
\* enqueues `canceled`.
C2_CancelStopsComputation ==
    [][\A tid \in TaskIds :
        LET co == active_coroutines[tid] IN
        (/\ co # NoEntry
         /\ epc[co.inv] = "waiting"
         /\ Len(Canceled(tid)') > Len(Canceled(tid)))
        => cpc'[co.inv] = "cancelled"]_vars

\* C3: a task id never has more `canceled` events than execute invocations
\* that registered a computation for it: with one execute, at most one.
C3_AtMostOneCanceled ==
    \A tid \in TaskIds : Len(Canceled(tid)) <= Cardinality(Registrations(tid))

C3_Witness ==
    \E tid \in TaskIds :
        /\ Len(Canceled(tid)) = 1
        /\ active_coroutines[tid] = NoEntry
        /\ \E e \in Registrations(tid) : epc[e] = "waiting"

\* C4 (as claimed): for a task id with one execute, at most one final status
\* event is ever enqueued and nothing of execute follows a `canceled` event.
C4_TerminalOnFirstFinal ==
    \A tid \in TaskIds :
        Cardinality(Registrations(tid)) <= 1 =>
            /\ Len(Finals(sink[tid])) <= 1
            /\ \A i, j \in 1..Len(sink[tid]) :
                (i < j /\ sink[tid][i].state = "canceled") => sink[tid][j].by = 0

\* C5 (as claimed): an execute that ended by a timeout while its Query was in
\* no terminal phase enqueued exactly working, "Query timed out after N
\* seconds", failed(final) with a timeout message, whichever timeout fired.
C5_TimeoutEvents ==
    \A e \in Execs :
        (Terminated(e) /\ TimedOut(e) /\ queries[e].phase \notin {"done", "error"}) =>
            LET evs == EventsBy(e) IN
            /\ Len(evs) = 3
            /\ IsWorking(evs[1])
            /\ evs[2] = NewAgentTextMessage(e, etask[e], ExecTimeoutText)
            /\ IsFinal(evs[3]) /\ evs[3].state = "failed"
            /\ evs[3].text \in {"Task failed: " \o ExecTimeoutError,
                                "Task failed: " \o DriverTimeoutMessage}

\* C6: an execute whose computation returned content c has enqueued, when it
\* returns, exactly working, the text message c, completed(final).
C6_SuccessEvents ==
    \A e \in Execs :
        (Terminated(e) /\ cpc[e] = "returned") =>
            EventsBy(e) = << CreateStatusEvent(e, etask[e], "working", FALSE, ""),
                             NewAgentTextMessage(e, etask[e], DoneContent(queries[e])),
                             CreateStatusEvent(e, etask[e], "completed", TRUE, "") >>

C6_Witness ==
    \E e \in Execs :
        /\ Terminated(e) /\ cpc[e] = "returned"
        /\ queries[e].responses # <<>>
        /\ EventsBy(e)[2].text = "hello"

\* C7: when the computation raised an error, execute handles it (the error
\* never leaves execute) and, when it returns, its last two events are the
\* text "Error: <error text>" and a failed(final) status.
C7_ErrorEvents ==
    \A e \in Execs :
        cpc[e] = "raised" =>
            /\ epc[e] \in {"e_final", "done"}
            /\ Terminated(e) =>
                LET evs == EventsBy(e) IN
                /\ Len(evs) = 3
                /\ evs[2] = NewAgentTextMessage(e, etask[e], "Error: " \o cres[e])
                /\ evs[3] = CreateStatusEvent(e, etask[e], "failed", TRUE, cres[e])

C7_Witness ==
    \E e \in Execs :
        /\ Terminated(e) /\ cpc[e] = "raised"
        /\ queries[e].phase = "error"
        /\ EventsBy(e)[2].text = "Error: Query error: hello"

\* what wait_for_query raised comes from a phase it observed, not from the
\* client or the clock
RaisedOnPhase(e) ==
    cpc[e] = "raised" /\ cres[e] \notin {"registry error", DriverTimeoutMessage}
FirstContentOr(q, default) ==
    IF q.responses # <<>> /\ q.responses[1].content # "" THEN q.responses[1].content
    ELSE default

\* C19 (as stated): on phase done wait_for_query returns responses[0].content,
\* or "Query completed but no response available" when there are no responses;
\* on phase error it raises with the first response content, or "Query failed".
C19_OutcomeAsStated ==
    \A e \in Execs :
        /\ cpc[e] = "returned" =>
            /\ queries[e].phase = "done"
            /\ cres[e] = IF queries[e].responses # <<>>
                         THEN queries[e].responses[1].content
                         ELSE "Query completed but no response available"
        /\ RaisedOnPhase(e) =>
            /\ queries[e].phase = "error"
            /\ cres[e] = "Query error: " \o FirstContentOr(queries[e], "Query failed")

\* C19 (amended): on phase done wait_for_query returns responses[0].content
\* when it is not empty, "No response content" when the first response has no
\* content, and "Query completed but no response available" when there are no
\* responses; on phase error it raises "Query error: " followed by the first
\* response content, or by "Query failed" when there is none.
C19_Outcome ==
    \A e \in Execs :
        /\ cpc[e] = "returned" =>
            /\ queries[e].phase = "done"
            /\ cres[e] = IF queries[e].responses # <<>>
                         THEN FirstContentOr(queries[e], "No response content")
                         ELSE "Query completed but no response available"
        /\ RaisedOnPhase(e) =>
            /\ queries[e].phase = "error"
            /\ cres[e] = "Query error: " \o FirstContentOr(queries[e], "Query failed")

C19_Witness ==
    \E e \in Execs :
        /\ cpc[e] = "returned" /\ cres[e] = "No response content"
        /\ queries[e].responses = <<[content |-> ""]>>

\* execute has returned or was unwound by a cancellation
Ended(e) == epc[e] \in {"done", "cancelled"}

\* the step in which invocation e of execute ends
ExecuteEnds(e) == ~Ended(e) /\ epc'[e] \in {"done", "cancelled"}

\* the step of cancel on an active task: the entry was there and the
\* `canceled` status is enqueued
CancelCompletes(tid) ==
    /\ active_coroutines[tid] # NoEntry
    /\ Len(sink'[tid]) = Len(sink[tid]) + 1
    /\ sink'[tid][Len(sink'[tid])] = CreateStatusEvent(0, tid, "canceled", TRUE, "")

C21_InactiveCancelSilent ==
    [][\A tid \in TaskIds :
        /\ (tid \in warned' /\ tid \notin warned) =>
              /\ active_coroutines[tid] = NoEntry
              /\ sink' = sink
              /\ active_coroutines' = active_coroutines
        /\ active_coroutines[tid] = NoEntry => Canceled(tid)' = Canceled(tid)]_vars

\* a cancel arrived for a task whose execute had finished and removed its
\* entry: the warning is logged and the queue of the task has no `canceled`
C21_Witness ==
    \E e \in Execs :
        /\ epc[e] = "done" /\ etask[e] \in warned
        /\ Finals(sink[etask[e]]) # <<>>
        /\ Canceled(etask[e]) = <<>>

(* ======================== claims about the router ====================== *)
InFlight(r) == req[r].pc \in {"held", "serving"}

\* C8: the app a request was handed, and the app in the proxy's cell, is an
\* app that set_app installed and whose mounts are exactly the table it was
\* installed with; it is never the app _update_routes is still building.
C8_ServedByInstalledVersion ==
    /\ \A r \in Reqs :
        InFlight(r) =>
            /\ req[r].app # new_app
            /\ apps[req[r].app].live
            /\ installed[req[r].app].set
            /\ apps[req[r].app].mounts = installed[req[r].app].table
    /\ cell # 0 =>
            /\ cell # new_app
            /\ installed[cell].set
            /\ apps[cell].mounts = installed[cell].table

C8_Witness ==
    \E r \in Reqs :
        /\ InFlight(r)
        /\ tpc = "mount" /\ todo # {} /\ todo # {n \in AgentNames : agents[n] # NoCard}
        /\ req[r].app = cell
        /\ apps[new_app].mounts # apps[cell].mounts

\* C9: a request in flight is served by the sub-handler that the table it
\* read (the table of the app in the cell at that instant) mounts for its
\* agent, whatever the cell holds now.
C9_ServedByTableRead ==
    \A r \in Reqs :
        /\ InFlight(r) => req[r].seen = installed[req[r].app].table
        /\ req[r].pc = "serving" =>
            /\ req[r].seen[req[r].name] # NoCard
            /\ req[r].handler = [app |-> req[r].app, name |-> req[r].name,
                                 card |-> req[r].seen[req[r].name]]
        /\ (req[r].pc = "done" /\ req[r].app # 0) => req[r].handler = NotFound

C9_Witness ==
    \E r \in Reqs :
        /\ req[r].pc = "serving"
        /\ cell # req[r].app
        /\ CellMounts[req[r].name] = NoCard
        /\ agents[req[r].name] = NoCard

\* C10: once a tick that fetched after the last registry change has completed
\* and no tick has raised, the in-memory map and the mounts of the served app
\* are exactly the projected cards of the registry.
C10_ReconcileConverges ==
    (synced /\ noError) => (agents = ListAgents /\ CellMounts = ListAgents)

C10_Witness ==
    /\ synced /\ noError
    /\ registry["foo"] = "skilled" /\ registry["bar"] = "absent"
    /\ cell # 0 /\ CellMounts["foo"] = ArkToAgentCard(ArkAgent("foo", "skilled"))
    /\ \E a \in AppIds : a # cell /\ apps[a].live /\ apps[a].mounts["bar"] # NoCard

\* C11: a request for a name that is not in the table is answered 404: a
\* request that enters while no app is installed, or between two ticks while
\* the manager's map has no such agent (never registered, or removed by a
\* reconcile), is answered Not Found or at least reads a table without that
\* name, and a request that read a table without its name is answered Not Found.
C11_UnknownAgentNotFound ==
    [][\A r \in Reqs :
        /\ ( /\ req[r].pc = "idle" /\ req'[r].pc # "idle"
             /\ \/ cell = 0
                \/ tpc = "idle" /\ agents[req'[r].name] = NoCard )
           => \/ req'[r] = Answered(req'[r].name, NotFound)
              \/ req'[r].pc = "held" /\ req'[r].seen[req'[r].name] = NoCard
        /\ ( /\ req[r].pc = "held" /\ req'[r] # req[r]
             /\ req[r].seen[req[r].name] = NoCard )
           => req'[r] = Answered(req[r].name, NotFound)
    ]_vars

(* ======================= claims about the OpenAI path ================== *)
\* poll_query_completion ran out of attempts: it raised its 504
PollExhausted == kexc.class = "HTTPException" /\ kexc.status = 504

\* C12: when the poll of the OpenAI path runs out of attempts without the
\* Query reaching done or error, the request is answered with status 504.
C12_PollTimeoutAnswers504 ==
    (kpc = "closed" /\ PollExhausted) => khttp.status = 504

\* the responses of the Query that carry content, by position
NonEmpty(rs) == {i \in 1..Len(rs) : rs[i].content # ""}
\* the request was answered from a Query observed in phase error
ErrorObserved ==
    /\ kpc = "closed" /\ kquery.exists /\ kquery.phase = "error"
    /\ kexc.class = "HTTPException" /\ kexc.status = 500

\* C13: for a Query in phase error the structured error has as message the
\* content of the first response with content, else status.message, else the
\* literal; its errors list one {target, message} per response with content,
\* in order, when there are two or more such responses, and is empty otherwise.
C13_ErrorDetail ==
    ErrorObserved =>
        LET rs == kquery.responses
            ne == NonEmpty(rs)
            d  == kexc.detail
        IN /\ d.message =
                IF ne # {} THEN rs[CHOOSE i \in ne : \A j \in ne : i <= j].content
                ELSE IF kquery.message # "" THEN kquery.message
                ELSE "Query execution failed: No error details available"
           /\ IF Cardinality(ne) >= 2
              THEN /\ Len(d.errors) = Cardinality(ne)
                   /\ \A i \in ne :
                        LET j == Cardinality({k \in ne : k <= i}) IN
                        /\ d.errors[j].message = rs[i].content
                        /\ rs[i].target # "" => d.errors[j].target = rs[i].target
              ELSE d.errors = <<>>

C13_Witness ==
    /\ ErrorObserved
    /\ Len(kexc.detail.errors) = 2
    /\ kexc.detail.errors[2].message = "e2"

\* stream=true and the streaming configuration absent or disabled
Fallback == kreq.stream /\ kcfg \in {"absent", "disabled"}
DoneFrame == DataPrefix \o Done \o <<NL, NL>>

\* C14: with stream=true and the streaming configuration absent or disabled,
\* the response stream is exactly two frames, a chat.completion.chunk with the
\* full content of the answer and finish_reason "stop", then `data: [DONE]`;
\* and no frame is written before the Query is in phase done.
C14_FallbackTwoFrames ==
    /\ [](Fallback =>
            /\ khttp.kind = "event-stream" <=> kframes # <<>>
            /\ kframes # <<>> =>
                /\ kpc = "closed"
                /\ Len(kframes) = 2
                /\ kframes[1].payload.kind = "chat.completion.chunk"
                /\ kframes[1].payload.finish_reason = "stop"
                /\ kframes[1].text = DataPrefix \o Json \o <<NL, NL>>
                /\ kquery.exists => kframes[1].payload.content = kquery.responses[1].content
                /\ kframes[2] = Frame(DoneFrame, NoPayload))
    /\ [][(Fallback' /\ kframes = <<>> /\ kframes' # <<>>) =>
            (kquery.exists /\ kquery.phase = "done" /\ kquery.responses # <<>>)]_vars

C14_Witness ==
    /\ Fallback /\ kpc = "closed" /\ Len(kframes) = 2
    /\ kquery.exists /\ kframes[1].payload.content = "e1"

StartsWith(t, prefix) == Len(t) >= Len(prefix) /\ SubSeq(t, 1, Len(prefix)) = prefix
\* ^data: .+\n\n$
WellFormedFrame(t) ==
    /\ StartsWith(t, DataPrefix)
    /\ Len(t) >= Len(DataPrefix) + 3
    /\ t[Len(t)] = NL /\ t[Len(t) - 1] = NL
    /\ \A i \in (Len(DataPrefix) + 1)..(Len(t) - 2) : t[i] # NL

\* C15: every frame written on a streaming response, by the single-chunk
\* fallback or by the proxy from any sequence of backend lines, is `data: `,
\* a payload that is not empty, and exactly two newlines.
C15_FramesWellFormed ==
    \A i \in 1..Len(kframes) : WellFormedFrame(kframes[i].text)

\* the frames that forward the lines ls[k..] that are not empty
RECURSIVE Forwarded(_, _)
Forwarded(ls, k) ==
    IF k > Len(ls) THEN <<>>
    ELSE (IF ls[k] # <<>> THEN << Frame(ls[k] \o <<NL, NL>>, NoPayload) >> ELSE <<>>)
         \o Forwarded(ls, k + 1)
Is2xx(status) == status >= 200 /\ status <= 299

\* C16: once the backend has answered, a non-2xx status gives exactly one
\* `data: <json>` error frame (the backend's message, type and code when the
\* body has that shape, the synthesized server_error otherwise) and nothing
\* else; a 2xx status gives no error frame and the lines read so far that are
\* not empty, each forwarded in order.
C16_ProxyStatusHandling ==
    kback.status # 0 =>
        IF ~Is2xx(kback.status)
        THEN /\ kpc = "closed"
             /\ Len(kframes) = 1
             /\ kframes[1].text = DataPrefix \o Json \o <<NL, NL>>
             /\ kframes[1].payload.kind = "error"
             /\ IF kback.body \in {"error", "errorNoCode"}
                THEN kframes[1].payload.message = "m" /\ kframes[1].payload.type = "t"
                ELSE kframes[1].payload.type = "server_error"
                     /\ kframes[1].payload.code = "server_error"
        ELSE /\ \A i \in 1..Len(kframes) : kframes[i].payload.kind # "error"
             /\ kframes = Forwarded(SubSeq(kback.lines, 1, Len(kback.lines) - Len(klines)), 1)

\* C17: a request whose metadata.ark does not parse is answered with 400,
\* type invalid_request_error and code invalid_ark_metadata; no Query is
\* created for it and the metadata map is as it was built.
C17_InvalidArkMetadata ==
    kreq.md = "arkInvalid" =>
        /\ kpc = "closed"
        /\ khttp.status = 400
        /\ khttp.type = "invalid_request_error"
        /\ khttp.code = "invalid_ark_metadata"
        /\ ~kquery.exists /\ klog = <<>>
        /\ kmeta = BaseMetadata

C17_Witness ==
    kreq.md = "arkInvalid" /\ kreq.stream /\ kpc = "closed" /\ khttp.status = 400

\* C18: the Query of a request is created once, with exactly one target, and
\* after its creation the gateway writes to it only by the cancel-patch: the
\* record is never deleted or rewritten by the gateway.
C18_CreatedOnceOnlyCancelPatched ==
    /\ \A i \in 1..Len(klog) :
        IF i = 1 THEN klog[i] = "create" ELSE klog[i] = "cancel-patch"
    /\ klog # <<>> =>
        /\ kquery.exists
        /\ kquery.targets = 1
        /\ kquery.input = "messages"

(* ========================= claims about sessions ======================= *)
\* the contacted memory services that answered 2xx
Answered2xx ==
    {i \in 1..Len(scalls) : scalls[i].kind = "response"
                            /\ scalls[i].status >= 200 /\ scalls[i].status <= 299}
\* the contacted memory services that could not be reached
Unreached == {i \in 1..Len(scalls) : scalls[i].kind = "exception"}
\* the contacted memory services that answered 500
Answered500 ==
    {i \in 1..Len(scalls) : scalls[i].kind = "response" /\ scalls[i].status = 500}

\* C22: when no memory service answered 500, delete_session answers 503
\* exactly when a memory service exists, none answered 2xx and one could not
\* be reached; otherwise it answers 200 with the number of 2xx answers
C22_DeleteSessionAnswer ==
    (spc = "answered" /\ Answered500 = {}) =>
        IF Len(memory_dicts) > 0 /\ Answered2xx = {} /\ Unreached # {}
        THEN shttp.status = 503
        ELSE shttp.status = 200 /\ shttp.count = Cardinality(Answered2xx)

\* one service answered 404 and another could not be reached: 503
C22_Witness ==
    /\ spc = "answered"
    /\ shttp.status = 503
    /\ \E i \in 1..Len(scalls) : scalls[i] = Response(404)
    /\ Unreached # {}

\* C23: a memory service that answers 500 is the last one contacted, and the
\* request is answered 500 in that step, whatever earlier services did
C23_Immediate500 ==
    \A i \in 1..Len(scalls) :
        scalls[i] = Response(500) =>
            /\ i = Len(scalls)
            /\ spc = "answered"
            /\ shttp.status = 500

\* the first service deleted the session, the second answered 500 and the
\* third was never contacted
C23_Witness ==
    /\ spc = "answered"
    /\ Len(memory_dicts) = 3
    /\ scalls = <<Response(200), Response(500)>>
    /\ deleted_count = 1
    /\ shttp.status = 500

(* ====================== claims about authentication ==================== *)
\* the request carries a credential of a scheme that its mode enables, and
\* the credential validated
ValidatedInMode ==
    \/ /\ areq.header.scheme = "Bearer" /\ areq.header.credential = "valid"
       /\ Lower(areq.mode) \in {"sso", "hybrid"}
    \/ /\ areq.header.scheme = "Basic" /\ areq.header.credential = "valid"
       /\ Lower(areq.mode) \in {"basic", "hybrid"}

\* C24: in modes sso, basic and hybrid a request to an authenticated route
\* reaches the handler only with a validated credential of an enabled scheme
\* and is otherwise answered 401 without the handler; in open mode every
\* request reaches the handler
C24_OnlyValidatedReachHandler ==
    apc \in {"handler", "answered"} =>
        /\ (Lower(areq.mode) \in {"sso", "basic", "hybrid"} /\ areq.protected) =>
              /\ ahandled => ValidatedInMode
              /\ (~ValidatedInMode /\ apc = "answered") =>
                    ahttp = Unauthorized /\ ~ahandled
        /\ Lower(areq.mode) = "open" => ahandled

\* a valid API key sent in sso mode is answered 401
C24_Witness ==
    /\ apc = "answered"
    /\ areq.mode = "sso" /\ areq.protected
    /\ areq.header = [scheme |-> "Basic", credential |-> "valid"]
    /\ ahttp = Unauthorized /\ ~ahandled

(* ======================== claims about post_query ====================== *)
\* C25: no two Queries created by post_query in one run have the same name
C25_NamesNeverReused ==
    \A i, j \in 1..Len(created) : i # j => created[i] # created[j]

(* ================= claims about the manager's life cycle =============== *)
\* _sync_with_registry is between its call and its return
TickInFlight == tpc \in {"fetch", "update", "mount"}
\* the step in which a tick returns to its caller
TickReturns == TickInFlight /\ tpc' \notin {"fetch", "update", "mount", "ended"}
\* the step in which a tick is abandoned where it is suspended
TickAborted == TickInFlight /\ tpc' = "ended"
\* the step in which set_app replaces the handler cell
CellReplaced == cell' # cell

\* C26: a tick that ends, with or without an error, leaves a running manager
\* running with its loop at the sleep, and while the manager is running the
\* sleep is followed by another tick
C26_ErrorsDoNotEndLoop ==
    /\ [][(TickInFlight /\ ~TickInFlight' /\ mgr # "stopping") =>
            (tpc' = "idle" /\ mgr' = "running")]_vars
    /\ ((mgr = "running" /\ tpc = "idle" /\ ~noError) ~>
            (tpc = "fetch" \/ mgr # "running"))

\* a tick is in flight after an earlier tick raised
C26_Witness == mgr = "running" /\ ~noError /\ tpc = "fetch" /\ cell # 0

\* C27 as stated: a tick that finds no difference leaves the map and the
\* cell as they are, and a tick that changes the map replaces the cell
\* exactly once before it returns
C27_CellReplacedIffChanged ==
    [][/\ (tpc = "fetch" /\ TickReturns) => (agents' = agents /\ cell' = cell)
       /\ (tpc = "update" \/ (tpc = "mount" /\ ~CellReplaced)) =>
              (tpc' \in {"update", "mount"} /\ cell' = cell)
       /\ (tpc = "mount" /\ CellReplaced) => TickReturns]_vars

\* C28: initialize leaves its initial state only by starting a sync, returns
\* and starts the loop only in the step that ends that sync, and the proxy is
\* mounted on the public surface only after initialize has returned
C28_InitialSyncFirst ==
    /\ [](surface => mgr \notin {"created", "initializing"})
    /\ [](mgr \in {"created", "initializing"} => (cell = 0 \/ TickInFlight))
    /\ [][/\ (mgr = "created" /\ mgr' # "created") =>
                (mgr' = "initializing" /\ tpc' = "fetch")
          /\ (mgr = "initializing" /\ mgr' # "initializing") =>
                (TickInFlight /\ tpc' = "idle" /\ mgr' = "running")
          /\ (tpc = "idle" /\ tpc' = "fetch") => mgr \in {"created", "running"}]_vars

\* the proxy is mounted while the loop runs a tick, with agents served
C28_Witness == surface /\ mgr = "running" /\ tpc = "fetch" /\ cell # 0

\* C29 as stated: shutdown terminates, a tick in flight when the loop is
\* cancelled runs to its end, and after shutdown has returned no tick runs
\* and the cell is not replaced
C29_ShutdownFinishesTick ==
    /\ (mgr = "stopping" ~> mgr = "stopped")
    /\ [][~TickAborted]_vars
    /\ [][mgr = "stopped" => (mgr' = "stopped" /\ tpc' = tpc /\ cell' = cell)]_vars

\* C29: shutdown terminates; a tick in flight when the loop is cancelled is
\* abandoned in list_agents and changes neither the map nor the cell; after
\* shutdown has returned no tick runs and the cell is not replaced
C29_ShutdownAbortsTick ==
    /\ (mgr = "stopping" ~> mgr = "stopped")
    /\ [][TickAborted => (tpc = "fetch" /\ agents' = agents /\ cell' = cell)]_vars
    /\ [][(mgr \in {"stopping", "stopped"}) =>
              (mgr' # "running" /\ tpc' \in {tpc, "ended"} /\ agents' = agents /\ cell' = cell)]_vars
    /\ [](mgr = "stopped" => tpc = "ended")

\* shutdown has returned after it cancelled a tick that had a change to apply
C29_Witness ==
    /\ mgr = "stopped" /\ tpc = "ended"
    /\ agents # ListAgents
    /\ cell # 0

(* ---------------------- claims about wait_for_query ------------------- *)
\* the phase wait_for_query reads is neither done nor error
NonTerminal(q) == q.phase \notin {"done", "error"}
\* a step of wait_for_query itself: it was polling or sleeping and moved on,
\* and not because its caller cancelled it
WaitStep(e) ==
    /\ cpc[e] \in {"get", "sleep"}
    /\ cpc'[e] # cpc[e]
    /\ cpc'[e] # "cancelled"

\* C30: wait_for_query polls a_get with a sleep between two polls while the
\* phase is neither done nor error: a poll that reads such a phase returns
\* nothing and goes to the sleep, and the sleep is followed by the next poll
\* only while the elapsed time is below the timeout; content is returned only
\* when the poll read phase done; and once the elapsed time has reached the
\* timeout the sleep is followed by the timeout error, never by another poll.
C30_PollUntilTerminalOrTimeout ==
    [][\A e \in Execs :
        WaitStep(e) =>
            /\ (cpc[e] = "get" /\ NonTerminal(queries[e])) =>
                    \/ cpc'[e] = "sleep" /\ cres'[e] = cres[e]
                    \/ cpc'[e] = "raised" /\ cres'[e] = "registry error"
            /\ cpc'[e] = "returned" =>
                    (cpc[e] = "get" /\ queries[e].phase = "done")
            /\ cpc'[e] = "get" =>
                    (cpc[e] = "sleep" /\ clk'[e] = clk[e] + 1 /\ clk'[e] < Timeout)
            /\ (cpc[e] = "sleep" /\ clk'[e] >= Timeout) =>
                    /\ cpc'[e] = "raised"
                    /\ cres'[e] = DriverTimeoutMessage]_vars

\* the wait ended with its timeout error while the Query was still running,
\* after at least one poll
C30_Witness ==
    \E e \in Execs :
        /\ cpc[e] = "raised" /\ cres[e] = DriverTimeoutMessage
        /\ queries[e].phase = "running"
        /\ clk[e] >= Timeout

(* -------------------- claims about poll_query_completion -------------- *)
\* the phase poll_query_completion reads is done or error
ChatTerminal == kquery.phase \in {"done", "error"}
\* a_get answered: the poll leaves its call
PollAnswered == kpc = "poll" /\ kpc' # "poll" /\ kexc' # ClientError

\* C31: the poll makes at most MaxAttempts (60 in the code) calls of a_get for
\* one request; it sleeps after a call only when that call read a non-terminal
\* phase and was not the last, and every sleep is followed by the next call;
\* the first call that reads done or error ends the poll; and when the last
\* call reads a non-terminal phase the poll raises the 504 timeout error
\* without sleeping.
C31_PollBounded ==
    /\ [](kpc \in {"poll", "sleep"} => kattempt + 1 <= MaxAttempts)
    /\ [](kpc = "sleep" => kattempt + 1 < MaxAttempts)
    /\ [][PollAnswered =>
            /\ kattempt' = kattempt
            /\ ChatTerminal => (kpc' = "closed" /\ ~PollExhausted')
            /\ (~ChatTerminal /\ kattempt + 1 < MaxAttempts) => kpc' = "sleep"
            /\ (~ChatTerminal /\ kattempt + 1 = MaxAttempts) =>
                    (kpc' = "closed" /\ PollExhausted')]_vars
    /\ [][(kpc = "sleep" /\ kpc' # "sleep") =>
            (kpc' = "poll" /\ kattempt' = kattempt + 1)]_vars

\* every call read a non-terminal phase and the last one raised the timeout
C31_Witness ==
    /\ kpc = "closed" /\ PollExhausted
    /\ kattempt + 1 = MaxAttempts
    /\ kquery.exists /\ ~ChatTerminal

(* ------------------ claims about the streaming branches --------------- *)
\* the request is in the poll fallback / has been handed to the proxy
Polling == kpc \in {"poll", "sleep"}
Proxying == kpc \in {"connect", "forward"}

\* C32: for a request with stream = true the Query is created with the
\* annotation streaming-enabled before the streaming configuration is read;
\* once the configuration is read the request polls if and only if it is
\* absent or disabled and is handed to the proxy otherwise; a request handed
\* to the proxy never polls, and a polling request is never handed over.
C32_StreamBranches ==
    /\ []((kpc \in {"idle", "create"}) => kcfg = "unread")
    /\ []((kpc = "config") => (kreq.stream /\ klog # <<>> /\ klog[1] = "create"))
    /\ []((kreq.stream /\ Polling) => kcfg \in {"absent", "disabled"})
    /\ [](Proxying => (kreq.stream /\ kcfg = "enabled" /\ kattempt = 0))
    /\ [][(kreq.stream /\ kpc = "create" /\ kpc' # "create") =>
            \/ /\ kpc' = "config"
               /\ kquery'.exists
               /\ StreamingEnabledAnnotation \in kquery'.annotations
            \/ kpc' = "closed" /\ kexc' = ClientError /\ ~kquery'.exists]_vars
    /\ [][(kpc = "config" /\ kpc' # "config") =>
            \/ kpc' = "poll" /\ kcfg' \in {"absent", "disabled"}
            \/ kpc' = "connect" /\ kcfg' = "enabled"
            \/ kpc' = "closed" /\ kexc' = ClientError /\ kcfg' = "unread"]_vars
    /\ [][(Proxying => ~Polling') /\ ((kreq.stream /\ Polling) => ~Proxying')]_vars

\* a streaming request was handed to the proxy and reads the backend's lines
C32_Witness ==
    /\ kreq.stream /\ kpc = "forward" /\ kcfg = "enabled"
    /\ klog # <<>> /\ klog[1] = "create"
    /\ kattempt = 0

(* ---------------- claims about errors of the streaming backend -------- *)
\* httpx raises inside proxy_streaming_response, at the connect or at a read
ProxyIOError == Proxying /\ kexc' # kexc

\* C33: when the connection to the streaming backend fails, at the connect or
\* after some lines were forwarded, the proxy writes exactly one error frame
\* after the frames already written and ends the stream.
C33_IOErrorGivesOneFrame ==
    [][ProxyIOError =>
        /\ kpc' = "closed"
        /\ Len(kframes') = Len(kframes) + 1
        /\ SubSeq(kframes', 1, Len(kframes)) = kframes
        /\ kframes'[Len(kframes')].payload.kind = "error"]_vars

(* ------------- claims about registry errors inside the polls ---------- *)
\* C34: an error of a registry call made by a polling loop does not end the
\* loop: after a_get raised in wait_for_query the wait is still polling or
\* sleeping, after a_get raised in poll_query_completion the request is still
\* polling, and after list_agents raised the reconcile loop has not ended.
C34_PollsSurviveRegistryErrors ==
    [][/\ \A e \in Execs :
            (cpc[e] = "get" /\ cres'[e] = "registry error") => cpc'[e] \in {"get", "sleep"}
       /\ (Polling /\ kexc' = ClientError) => Polling'
       /\ (tpc = "fetch" /\ mgr = "running") => tpc' # "ended"]_vars

(* -------------- claims about process_request_metadata ----------------- *)
\* metadata.ark parsed and carries at least one annotation
SuppliesAnnotations ==
    request_metadata.kind = "ark" /\ request_metadata.annotations # EmptyAnn

\* C35: with valid annotations in metadata.ark every annotation the query
\* metadata held under a key that is not supplied keeps its value and every
\* supplied key has its supplied value; with no metadata, no `ark` key, or an
\* `ark` without annotations the query metadata is exactly what it was, and no
\* annotations entry has been added.
C35_AnnotationsMerged ==
    mpc = "returned" =>
        /\ SuppliesAnnotations =>
            /\ ~error_response
            /\ base_metadata.hasAnnotations
            /\ \A k \in AnnKeys :
                  base_metadata.annotations[k] =
                      IF request_metadata.annotations[k] # Absent
                      THEN request_metadata.annotations[k]
                      ELSE base_before.annotations[k]
        /\ (request_metadata.kind \in {"none", "empty", "other", "arkNoField", "arkNull"}) =>
            /\ ~error_response
            /\ base_metadata = base_before

\* one key was overwritten with the supplied value, another one was kept
C35_Witness ==
    /\ mpc = "returned" /\ SuppliesAnnotations
    /\ \E k, j \in AnnKeys :
        /\ base_before.annotations[k] \notin {Absent, request_metadata.annotations[k]}
        /\ request_metadata.annotations[k] # Absent
        /\ request_metadata.annotations[j] = Absent
        /\ base_before.annotations[j] # Absent
        /\ base_metadata.annotations[j] = base_before.annotations[j]

(* --------------------- claims about the task-map lock ----------------- *)
\* C36: the lock of the task map is held only inside the blocks that read or
\* change the map: an invocation that awaits the query computation or a write
\* to the event queue never holds it, so whenever a cancel asks for the lock
\* while an execute waits for its query, the lock is free or its holder is
\* inside a block and not suspended.
C36_LockOnlyAroundMap ==
    /\ \A p \in LockProcs :
        /\ (tasks_lock = p) <=> (lpc[p] \in LockedPositions)
        /\ (lpc[p] \in AwaitPositions) => tasks_lock # p
    /\ \A c \in LockCancels :
        (lpc[c] \in {"lock1", "lock2"} /\ tasks_lock # "free") =>
            lpc[tasks_lock] \notin AwaitPositions

\* a cancel asks for the lock while an execute waits for its query and the
\* other execute is inside a block
C36_Witness ==
    /\ lpc["c"] = "lock1"
    /\ lpc["x1"] = "wait_for"
    /\ tasks_lock = "x2"

(* --------------- claims about the cell after a failed rebuild --------- *)
\* C37: between two ticks of a running manager, whether or not the last
\* rebuild failed, the agents mounted in the served app are exactly the
\* agents of the in-memory map, with equal cards.
C37_CellMatchesMap ==
    (mgr = "running" /\ tpc = "idle") => CellMounts = agents

(* ------------- claims about sub-handler state across a swap ----------- *)
\* C38: a cancel for the task of a request that is being served on an agent
\* finds and cancels the task whenever the served app still mounts that agent
\* with the card the request was routed with, whatever reconciles of other
\* agents have replaced the app in between.
C38_UnchangedAgentKeepsTasks ==
    [][\A r \in Reqs :
        ( /\ req[r].pc = "serving"
          /\ cancel_outcome' # cancel_outcome
          /\ CellMounts[req[r].name] = req[r].handler.card )
        => cancel_outcome' = "canceled"]_vars

(* ------------- claims about the entry of a running execute ------------ *)
\* invocation e has stored its computation and has not reached the pop of its
\* finally block
Registered(e) == epc[e] \in {"waiting", "s_final", "t_final", "cleanup"}
\* the step in which e stores its computation (line 132)
Registers(e) == epc[e] = "working" /\ epc'[e] = "waiting"
\* the step in which e runs the pop of its finally block (line 172)
Pops(e) ==
    \/ epc[e] = "cleanup" /\ epc'[e] = "done"
    \/ epc[e] = "waiting" /\ epc'[e] = "e_final"

\* C39 (as stated): while an execute invocation is between registering its
\* computation and its cleanup, the task map holds under its task_id that
\* invocation's own computation, also with an overlapping execute on the same
\* task_id and after a cancel for it.
C39_OwnEntryWhileRunning ==
    \A e \in DOMAIN epc :
        Registered(e) => active_coroutines[etask[e]] = ProcessQuery(e)

\* C39 (amended): the step in which an execute registers leaves the map with
\* that invocation's own computation under its task_id, and while the
\* invocation is between registering and its cleanup the entry stops being its
\* own only in a step of a cancel for that task_id (which removes it), in the
\* registration of another execute with the same task_id (which replaces it)
\* or in the cleanup of such an execute (which removes it).
C39_OwnEntryUnlessDisplaced ==
    [][\A e \in DOMAIN epc :
        /\ Registers(e) => active_coroutines'[etask[e]] = ProcessQuery(e)
        /\ ( /\ Registered(e) /\ Registered(e)'
             /\ active_coroutines[etask[e]] = ProcessQuery(e)
             /\ active_coroutines'[etask[e]] # ProcessQuery(e) )
           => \/ /\ CancelCompletes(etask[e])
                 /\ active_coroutines'[etask[e]] = NoEntry
              \/ \E f \in DOMAIN epc \ {e} :
                    /\ etask[f] = etask[e]
                    /\ \/ Registers(f) /\ active_coroutines'[etask[e]] = ProcessQuery(f)
                       \/ Pops(f) /\ active_coroutines'[etask[e]] = NoEntry]_vars

\* an execute is still waiting for its query after a cancel removed its entry
C39_Witness ==
    \E e \in DOMAIN epc :
        /\ Registered(e) /\ epc[e] = "waiting"
        /\ active_coroutines[etask[e]] = NoEntry
        /\ Canceled(etask[e]) # <<>>

(* ------------------ claims about a deleted API key -------------------- *)
\* delete_api_key has returned True
DeleteReturnedTrue == dresult = "True"

====
